---- MODULE Spec2Model ----
(***************************************************************************)
(* Model of the template-matching and AI-mediated decision core of the    *)
(* col-customer email assistant: the TemplateRetriever (store, indexes,   *)
(* scoring), the ZhipuAIService (analyzeEmail, generateResponse, chat)    *)
(* and the per-email worker of the driver (main.processEmail).            *)
(*                                                                         *)
(* Strings are sequences of one-character strings.  Scores are multiples  *)
(* of 0.5 in the source; every score here is counted in halves, so the    *)
(* source's +2, +1 and +0.5 are +4, +2 and +1.                            *)
(***************************************************************************)
EXTENDS Integers, Sequences, FiniteSets, TLC

\* ------------------------------------------------------------------------
\* Bounds of the model
\* ------------------------------------------------------------------------
MaxTemplates == 2   \* templates in a corpus
MaxPieces == 2      \* pieces concatenated into an email body
MaxLimit == 2       \* largest limit passed to findBestMatches directly
MaxExtra == 3       \* emails of a mailbox beyond one full batch

\* ------------------------------------------------------------------------
\* Characters and strings
\* ------------------------------------------------------------------------
\* /\s/ of the regular expressions
Whitespace == {" ", "\n"}

\* /[\s,U+FF0C U+3001]/ : the separators of a scenario (whitespace, the
\* comma, and the fullwidth and ideographic commas, named by code point)
ScenarioSeparators == Whitespace \cup {",", "U+FF0C", "U+3001"}

\* \w of the regular expressions, and the CJK range U+4E00..U+9FA5
\* (two of its characters, named by code point)
WordChars == {"a", "b", "c", "d", "e", "f", "r", "t", "x", "y", "z",
              "A", "B", "C", "R", "0", "1", "_"}
CJKChars == {"U+9000", "U+6B3E"}

\* String.prototype.toLowerCase on one character
LowerChar(c) ==
  CASE c = "A" -> "a"
    [] c = "B" -> "b"
    [] c = "C" -> "c"
    [] c = "R" -> "r"
    [] OTHER -> c

toLowerCase(s) == [i \in 1..Len(s) |-> LowerChar(s[i])]

\* String.prototype.includes
includes(s, sub) ==
  \E i \in 0..(Len(s) - Len(sub)) : SubSeq(s, i + 1, i + Len(sub)) = sub

\* Array.prototype.includes
arrayIncludes(arr, x) == \E i \in 1..Len(arr) : arr[i] = x

\* String.prototype.split on a regular expression /[seps]+/ : the pieces
\* between maximal runs of separators, with an empty piece at either end
\* when the string starts or ends with a separator
RECURSIVE SplitFrom(_, _, _, _, _)
SplitFrom(s, seps, i, cur, inSep) ==
  IF i > Len(s) THEN <<cur>>
  ELSE IF s[i] \in seps
       THEN IF inSep THEN SplitFrom(s, seps, i + 1, cur, TRUE)
            ELSE <<cur>> \o SplitFrom(s, seps, i + 1, <<>>, TRUE)
       ELSE SplitFrom(s, seps, i + 1, Append(cur, s[i]), FALSE)

split(s, seps) == SplitFrom(s, seps, 1, <<>>, FALSE)

\* Array.from(new Set(arr)) : first occurrences, in order
RECURSIVE Dedupe(_, _)
Dedupe(arr, seen) ==
  IF arr = <<>> THEN <<>>
  ELSE IF arrayIncludes(seen, Head(arr)) THEN Dedupe(Tail(arr), seen)
       ELSE <<Head(arr)>> \o Dedupe(Tail(arr), Append(seen, Head(arr)))

\* Array.prototype.slice(0, end)
slice(arr, end) ==
  LET e == IF end < 0 THEN (IF Len(arr) + end < 0 THEN 0 ELSE Len(arr) + end)
           ELSE IF end > Len(arr) THEN Len(arr) ELSE end
  IN SubSeq(arr, 1, e)

\* the elements of an array
Range(q) == { q[i] : i \in 1..Len(q) }

\* ------------------------------------------------------------------------
\* Map<string, Template[]> : entries in insertion order
\* ------------------------------------------------------------------------
MapHas(m, k) == \E i \in 1..Len(m) : m[i].key = k

MapGet(m, k) == m[CHOOSE i \in 1..Len(m) : m[i].key = k].templates

\* if (!map.has(k)) map.set(k, []); map.get(k).push(t)
MapPush(m, k, t) ==
  IF MapHas(m, k)
  THEN [i \in 1..Len(m) |->
          IF m[i].key = k THEN [m[i] EXCEPT !.templates = Append(@, t)] ELSE m[i]]
  ELSE Append(m, [key |-> k, templates |-> <<t>>])

MapKeys(m) == [i \in 1..Len(m) |-> m[i].key]

\* ------------------------------------------------------------------------
\* Inputs: the template pool, the corpora and the emails
\* ------------------------------------------------------------------------
Wabc == <<"a", "b", "c">>
Wdef == <<"d", "e", "f">>

\* "" as the text of an absent language variant
NoText == ""

TemplatePool ==
  { [id |-> "A", category |-> <<"r", "f">>,
     scenario |-> Wabc \o <<" ">> \o Wdef,
     keywords |-> <<Wabc>>,
     languages |-> [en |-> "A-en", zh |-> "A-zh"]],
    [id |-> "B", category |-> <<"r", "f">>,
     scenario |-> <<"x", "y">>,
     keywords |-> << <<"A", "b", "c">>, <<"d">> >>,
     languages |-> [en |-> "B-en", zh |-> NoText]],
    [id |-> "C", category |-> <<"r">>,
     scenario |-> Wdef \o <<"U+FF0C">> \o <<"x", "y">>,
     keywords |-> <<Wdef>>,
     languages |-> [en |-> "C-en", zh |-> "C-zh"]],
    [id |-> "D", category |-> <<"t">>,
     scenario |-> Wabc,
     keywords |-> <<Wdef, Wdef>>,
     languages |-> [en |-> NoText, zh |-> "D-zh"]],
    [id |-> "E", category |-> <<"t">>,
     scenario |-> <<"A", "b", "c", ",", "z", "z">>,
     keywords |-> <<Wabc>>,
     languages |-> [en |-> "E-en", zh |-> NoText]] }

\* sequences of distinct elements of S, of length at most n
DistinctSeqs(S, n) ==
  UNION { { q \in [1..k -> S] : \A i, j \in 1..k : i < j => q[i] # q[j] } :
          k \in 0..n }

\* template ids are unique within a corpus
Corpora == DistinctSeqs(TemplatePool, MaxTemplates)

RECURSIVE Concat(_)
Concat(ss) == IF ss = <<>> THEN <<>> ELSE Head(ss) \o Concat(Tail(ss))

Pieces == {Wabc, Wdef, <<" ">>, <<"x">>}

Bodies == { Concat(ps) : ps \in UNION {[1..n -> Pieces] : n \in 0..MaxPieces} }

Subjects == {<<>>, <<"A", "b", "c">>}

UserSender == "user@example.com"

Emails(senders) ==
  { [from |-> f, subject |-> s, text |-> b] :
      f \in senders, s \in Subjects, b \in Bodies }

\* the category names a caller may pass
RequestedCategories ==
  {<<"r", "f">>, <<"r">>, <<"t">>, <<"R">>, <<"x">>, <<>>}

Limits == (-1)..MaxLimit

\* ------------------------------------------------------------------------
\* TemplateRetriever
\* ------------------------------------------------------------------------
\* map.set(k, [t]) in place of the push: a later template of a category
\* replaces the earlier ones
RECURSIVE buildCategoryIndexOverwriting(_, _)
buildCategoryIndexOverwriting(ts, index) ==
  IF ts = <<>> THEN index
  ELSE LET k == Head(ts).category
           set == IF MapHas(index, k)
                  THEN [i \in 1..Len(index) |->
                          IF index[i].key = k
                          THEN [index[i] EXCEPT !.templates = <<Head(ts)>>]
                          ELSE index[i]]
                  ELSE Append(index, [key |-> k, templates |-> <<Head(ts)>>])
       IN buildCategoryIndexOverwriting(Tail(ts), set)

\* buildIndexes, the category half: one pass over the corpus, pushing each
\* template onto the list of its category
RECURSIVE buildCategoryIndex(_, _)
buildCategoryIndex(ts, index) ==
  IF ts = <<>> THEN index
  ELSE buildCategoryIndex(Tail(ts), MapPush(index, Head(ts).category, Head(ts)))

\* the inner forEach of buildIndexes: one template's keywords, lowercased
RECURSIVE indexKeywords(_, _, _)
indexKeywords(t, kws, index) ==
  IF kws = <<>> THEN index
  ELSE indexKeywords(t, Tail(kws), MapPush(index, toLowerCase(Head(kws)), t))

\* getTemplatesByCategory: this.categoryIndex.get(category) || []
getTemplatesByCategory(index, category) ==
  IF MapHas(index, category) THEN MapGet(index, category) ELSE <<>>

\* buildIndexes, the keyword half
RECURSIVE buildKeywordIndex(_, _)
buildKeywordIndex(ts, index) ==
  IF ts = <<>> THEN index
  ELSE buildKeywordIndex(Tail(ts), indexKeywords(Head(ts), Head(ts).keywords, index))

\* extractKeywords: lowercase, every character that is neither \w, \s nor
\* CJK becomes a space, split on whitespace, keep words longer than 2,
\* drop duplicates
extractKeywords(text) ==
  LET lower == toLowerCase(text)
      replaced == [i \in 1..Len(lower) |->
                     IF lower[i] \in WordChars \cup Whitespace \cup CJKChars
                     THEN lower[i] ELSE " "]
      LongWord(w) == Len(w) > 2
  IN Dedupe(SelectSeq(split(replaced, Whitespace), LongWord), <<>>)

\* the keyword loop with its second test under an else: a keyword found as
\* a token gets no substring bonus
RECURSIVE scoreKeywordsElseIf(_, _, _, _)
scoreKeywordsElseIf(kws, emailKeywords, emailText, acc) ==
  IF kws = <<>> THEN acc
  ELSE LET keyword == Head(kws)
           normalizedKeyword == toLowerCase(keyword)
           after ==
             IF arrayIncludes(emailKeywords, normalizedKeyword)
             THEN [score |-> acc.score + 4,
                   matchedKeywords |-> Append(acc.matchedKeywords, keyword)]
             ELSE IF includes(emailText, normalizedKeyword)
                  THEN [score |-> acc.score + 2,
                        matchedKeywords |-> Append(acc.matchedKeywords, keyword)]
                  ELSE acc
       IN scoreKeywordsElseIf(Tail(kws), emailKeywords, emailText, after)

\* the keyword loop with its substring test on the keyword as written, not
\* lowercased
RECURSIVE scoreKeywordsRawSubstring(_, _, _, _)
scoreKeywordsRawSubstring(kws, emailKeywords, emailText, acc) ==
  IF kws = <<>> THEN acc
  ELSE LET keyword == Head(kws)
           normalizedKeyword == toLowerCase(keyword)
           isToken == arrayIncludes(emailKeywords, normalizedKeyword)
           isPartial == includes(emailText, keyword)
           afterToken ==
             IF isToken
             THEN [score |-> acc.score + 4,
                   matchedKeywords |-> Append(acc.matchedKeywords, keyword)]
             ELSE acc
           afterPartial ==
             IF isPartial
             THEN [score |-> afterToken.score + 2,
                   matchedKeywords |->
                     IF arrayIncludes(afterToken.matchedKeywords, keyword)
                     THEN afterToken.matchedKeywords
                     ELSE Append(afterToken.matchedKeywords, keyword)]
             ELSE afterToken
       IN scoreKeywordsRawSubstring(Tail(kws), emailKeywords, emailText,
                                    afterPartial)

\* the keyword loop of calculateScore; acc is [score, matchedKeywords]
RECURSIVE scoreKeywords(_, _, _, _)
scoreKeywords(kws, emailKeywords, emailText, acc) ==
  IF kws = <<>> THEN acc
  ELSE LET keyword == Head(kws)
           normalizedKeyword == toLowerCase(keyword)
           isToken == arrayIncludes(emailKeywords, normalizedKeyword)
           isPartial == includes(emailText, normalizedKeyword)
           afterToken ==
             IF isToken
             THEN [score |-> acc.score + 4,
                   matchedKeywords |-> Append(acc.matchedKeywords, keyword)]
             ELSE acc
           afterPartial ==
             IF isPartial
             THEN [score |-> afterToken.score + 2,
                   matchedKeywords |->
                     IF arrayIncludes(afterToken.matchedKeywords, keyword)
                     THEN afterToken.matchedKeywords
                     ELSE Append(afterToken.matchedKeywords, keyword)]
             ELSE afterToken
       IN scoreKeywords(Tail(kws), emailKeywords, emailText, afterPartial)

\* the scenario loop with || in place of && in its test
RECURSIVE scoreScenarioOr(_, _, _)
scoreScenarioOr(words, emailText, score) ==
  IF words = <<>> THEN score
  ELSE scoreScenarioOr(Tail(words), emailText,
         IF Len(Head(words)) > 2 \/ includes(emailText, Head(words))
         THEN score + 1 ELSE score)

\* the scenario loop of calculateScore
RECURSIVE scoreScenario(_, _, _)
scoreScenario(words, emailText, score) ==
  IF words = <<>> THEN score
  ELSE scoreScenario(Tail(words), emailText,
         IF Len(Head(words)) > 2 /\ includes(emailText, Head(words))
         THEN score + 1 ELSE score)

calculateScore(template, emailKeywords, emailText) ==
  LET kw == scoreKeywords(template.keywords, emailKeywords, emailText,
                          [score |-> 0, matchedKeywords |-> <<>>])
      scenarioWords == split(toLowerCase(template.scenario), ScenarioSeparators)
  IN [score |-> scoreScenario(scenarioWords, emailText, kw.score),
      matchedKeywords |-> kw.matchedKeywords]

\* the comparator with its operands exchanged
compareMatchesAscending(a, b) == a.score - b.score

\* the comparator (a, b) => b.score - a.score
compareMatches(a, b) == b.score - a.score

\* an insertion that places an element before the elements it ties with
RECURSIVE insertSortedBeforeEqual(_, _)
insertSortedBeforeEqual(sorted, m) ==
  IF sorted = <<>> THEN <<m>>
  ELSE IF compareMatches(Head(sorted), m) < 0
       THEN <<Head(sorted)>> \o insertSortedBeforeEqual(Tail(sorted), m)
       ELSE <<m>> \o sorted

\* Array.prototype.sort with that comparator: a stable sort (ECMAScript
\* 2019), here by insertion of each element after the elements it does
\* not precede
RECURSIVE insertSorted(_, _)
insertSorted(sorted, m) ==
  IF sorted = <<>> THEN <<m>>
  ELSE IF compareMatches(Head(sorted), m) <= 0
       THEN <<Head(sorted)>> \o insertSorted(Tail(sorted), m)
       ELSE <<m>> \o sorted

RECURSIVE sortMatches(_, _)
sortMatches(ms, sorted) ==
  IF ms = <<>> THEN sorted
  ELSE sortMatches(Tail(ms), insertSorted(sorted, Head(ms)))

\* ------------------------------------------------------------------------
\* The corpus file and the constructor
\* ------------------------------------------------------------------------
\* a value that is no array (undefined, an object, a string, a number)
NotAnArray == [array |-> FALSE, items |-> <<>>]

\* what may be at the path: no readable file, a text that is not JSON, or a
\* JSON text holding null, an array, or an object with or without a version
\* and with templates that are an array, another value, or absent
Files ==
  { [kind |-> k, has |-> {}, templates |-> NotAnArray] :
      k \in {"unreadable", "text", "null", "array"} }
  \cup { [kind |-> "object", has |-> h, templates |-> NotAnArray] :
           h \in SUBSET {"version", "templates"} }
  \cup { [kind |-> "object", has |-> h \cup {"templates"}, templates |-> [array |-> TRUE, items |-> c]] :
           h \in SUBSET {"version"}, c \in Corpora }

\* a file that matches the schema and holds the corpus
FileOf(corpus) ==
  [kind |-> "object", has |-> {"version", "templates"},
   templates |-> [array |-> TRUE, items |-> corpus]]

\* loadTemplates: readFileSync and JSON.parse raise on a missing file and
\* on a text that is not JSON, reading a property of null raises a
\* TypeError, and data.templates is assigned as it is
loadTemplates(file) ==
  CASE file.kind = "unreadable" -> [raised |-> "Error", templates |-> NotAnArray]
    [] file.kind = "text" -> [raised |-> "SyntaxError", templates |-> NotAnArray]
    [] file.kind = "null" -> [raised |-> "TypeError", templates |-> NotAnArray]
    [] OTHER -> [raised |-> "none",
                 templates |-> IF "templates" \in file.has
                               THEN file.templates ELSE NotAnArray]

\* getCandidates with no candidates where no category matches
getCandidatesNoCorpusFallback(ts, index, category) ==
  IF MapHas(index, category) /\ Len(MapGet(index, category)) > 0
  THEN MapGet(index, category)
  ELSE LET normalizedCategory == toLowerCase(category)
           Similar(i) ==
             \/ includes(toLowerCase(index[i].key), normalizedCategory)
             \/ includes(normalizedCategory, toLowerCase(index[i].key))
       IN IF \E i \in 1..Len(index) : Similar(i)
          THEN index[CHOOSE i \in 1..Len(index) :
                       Similar(i) /\ \A j \in 1..(i - 1) : ~Similar(j)].templates
          ELSE <<>>

\* getCandidates comparing the names as they are written
getCandidatesCaseSensitive(ts, index, category) ==
  IF MapHas(index, category) /\ Len(MapGet(index, category)) > 0
  THEN MapGet(index, category)
  ELSE LET Similar(i) ==
             \/ includes(index[i].key, category)
             \/ includes(category, index[i].key)
       IN IF \E i \in 1..Len(index) : Similar(i)
          THEN index[CHOOSE i \in 1..Len(index) :
                       Similar(i) /\ \A j \in 1..(i - 1) : ~Similar(j)].templates
          ELSE ts

\* getCandidates with the substring comparison made before the exact lookup
getCandidatesSubstringFirst(ts, index, category) ==
  LET normalizedCategory == toLowerCase(category)
      Similar(i) ==
        \/ includes(toLowerCase(index[i].key), normalizedCategory)
        \/ includes(normalizedCategory, toLowerCase(index[i].key))
  IN IF \E i \in 1..Len(index) : Similar(i)
     THEN index[CHOOSE i \in 1..Len(index) :
                  Similar(i) /\ \A j \in 1..(i - 1) : ~Similar(j)].templates
     ELSE IF MapHas(index, category) /\ Len(MapGet(index, category)) > 0
          THEN MapGet(index, category)
          ELSE ts

\* getCandidates: exact category, else the first category whose name
\* contains or is contained in the requested one ignoring case, else the
\* whole corpus
getCandidates(ts, index, category) ==
  IF MapHas(index, category) /\ Len(MapGet(index, category)) > 0
  THEN MapGet(index, category)
  ELSE LET normalizedCategory == toLowerCase(category)
           Similar(i) ==
             \/ includes(toLowerCase(index[i].key), normalizedCategory)
             \/ includes(normalizedCategory, toLowerCase(index[i].key))
       IN IF \E i \in 1..Len(index) : Similar(i)
          THEN index[CHOOSE i \in 1..Len(index) :
                       Similar(i) /\ \A j \in 1..(i - 1) : ~Similar(j)].templates
          ELSE ts

findBestMatches(ts, index, email, category, limit) ==
  LET candidates == getCandidates(ts, index, category)
      emailText == toLowerCase(email.subject \o <<" ">> \o email.text)
      emailWords == extractKeywords(emailText)
      matches == [i \in 1..Len(candidates) |->
                    LET r == calculateScore(candidates[i], emailWords, emailText)
                    IN [template |-> candidates[i], score |-> r.score,
                        matchedKeywords |-> r.matchedKeywords]]
      Positive(m) == m.score > 0
  IN slice(sortMatches(SelectSeq(matches, Positive), <<>>), limit)

\* the candidate list reversed where it lives, in the index or in the
\* template list
storeAfterReversingCandidates(ts, index, category) ==
  LET candidates == getCandidates(ts, index, category)
      n == Len(candidates)
      reversed == [i \in 1..n |-> candidates[n + 1 - i]]
      fromIndex == \E i \in 1..Len(index) : index[i].templates = candidates
  IN [templates |-> IF fromIndex THEN ts ELSE reversed,
      categoryIndex |->
        [i \in 1..Len(index) |->
           IF index[i].templates = candidates
           THEN [index[i] EXCEPT !.templates = reversed]
           ELSE index[i]]]

\* the candidate list taken out of the store, emptied where it lives
storeAfterConsumingCandidates(ts, index, category) ==
  LET candidates == getCandidates(ts, index, category)
      fromIndex == \E i \in 1..Len(index) : index[i].templates = candidates
  IN [templates |-> IF fromIndex THEN ts ELSE <<>>,
      categoryIndex |->
        [i \in 1..Len(index) |->
           IF index[i].templates = candidates
           THEN [index[i] EXCEPT !.templates = <<>>]
           ELSE index[i]]]

\* the store as findBestMatches leaves it: map and filter copy the candidate
\* list, sort and slice work on the copy, and no field of the retriever is
\* assigned
storeAfterFindBestMatches(ts, index, category) ==
  [templates |-> ts, categoryIndex |-> index]

\* getTemplateContent without the English variant as second choice
getTemplateContentNoFallback(template, language) ==
  IF language \in DOMAIN template.languages /\ template.languages[language] # NoText
  THEN template.languages[language]
  ELSE NoText

\* getTemplateContent
getTemplateContent(template, language) ==
  IF language \in DOMAIN template.languages /\ template.languages[language] # NoText
  THEN template.languages[language]
  ELSE IF "en" \in DOMAIN template.languages /\ template.languages["en"] # NoText
       THEN template.languages["en"]
       ELSE NoText

\* ------------------------------------------------------------------------
\* The oracle's replies: a text is a sequence of tokens
\* ------------------------------------------------------------------------
NoValue == [kind |-> "none"]

Tok(t, v) == [tok |-> t, value |-> v]

Fence == Tok("fence", NoValue)      \* a markdown code fence (three backquotes)
JsonWord == Tok("json", NoValue)    \* the word json right after a fence
Ws == Tok("ws", NoValue)            \* a run of whitespace
Json(v) == Tok("value", v)          \* the text of the JSON value v
Prose(v) == Tok("prose", v)         \* any text that is not JSON

IsWs(t) == t.tok = "ws"

\* String.prototype.trim
RECURSIVE trimStart(_)
trimStart(text) ==
  IF text # <<>> /\ IsWs(Head(text)) THEN trimStart(Tail(text)) ELSE text

RECURSIVE trimEnd(_)
trimEnd(text) ==
  IF text # <<>> /\ IsWs(text[Len(text)])
  THEN trimEnd(SubSeq(text, 1, Len(text) - 1)) ELSE text

trim(text) == trimEnd(trimStart(text))

\* the cleaning of a reply in analyzeEmail and selectTemplateWithReasoning:
\* trim, then remove a leading fence with the word json, or a leading
\* fence, and the whitespace after it, then remove a trailing fence and the
\* whitespace before it
stripClosingFence(text) ==
  IF text # <<>> /\ text[Len(text)] = Fence
  THEN trimEnd(SubSeq(text, 1, Len(text) - 1)) ELSE text

\* a cleaning that knows only the fence with the word json
cleanResponseJsonFenceOnly(response) ==
  LET trimmed == trim(response)
  IN IF Len(trimmed) >= 2 /\ trimmed[1] = Fence /\ trimmed[2] = JsonWord
     THEN stripClosingFence(trimStart(SubSeq(trimmed, 3, Len(trimmed))))
     ELSE trimmed

cleanResponse(response) ==
  LET trimmed == trim(response)
  IN IF Len(trimmed) >= 2 /\ trimmed[1] = Fence /\ trimmed[2] = JsonWord
     THEN stripClosingFence(trimStart(SubSeq(trimmed, 3, Len(trimmed))))
     ELSE IF Len(trimmed) >= 1 /\ trimmed[1] = Fence
          THEN stripClosingFence(trimStart(Tail(trimmed)))
          ELSE trimmed

\* JSON.parse: whitespace around one JSON value; anything else is a
\* SyntaxError
ParseError == [kind |-> "SyntaxError"]

JSONparse(text) ==
  LET t == trim(text)
  IN IF Len(t) = 1 /\ t[1].tok = "value" THEN t[1].value ELSE ParseError

\* JSON values of the analysis contract
AnalysisFields ==
  {"language", "category", "intent", "keywords", "suggestedTemplate",
   "reasoning", "sentiment", "priority", "isImportant", "suggestedActions"}

\* the fields of the declared return type of analyzeEmail that are not
\* optional
RequiredFields == AnalysisFields \ {"suggestedTemplate"}

Priorities == {"low", "medium", "high", "urgent"}

AnalysisObject(has, lang, cat, imp) ==
  [kind |-> "object", has |-> has, language |-> lang, category |-> cat,
   intent |-> "REFUND_REQUEST", keywords |-> <<"refund">>,
   suggestedTemplate |-> "scenario", reasoning |-> "wants money back",
   sentiment |-> "negative", priority |-> "high", isImportant |-> imp,
   suggestedActions |-> <<"reply">>]

JsonNull ==
  [kind |-> "null", has |-> {}, language |-> "", category |-> <<>>,
   intent |-> "", keywords |-> <<>>, suggestedTemplate |-> "",
   reasoning |-> "", sentiment |-> "", priority |-> "", isImportant |-> FALSE,
   suggestedActions |-> <<>>]

\* U+4FE1 U+606F U+6536 U+96C6 U+4E0E U+8DDF U+8FDB : the needs-follow-up
\* category of the default analysis
FollowUpCategory ==
  <<"U+4FE1", "U+606F", "U+6536", "U+96C6", "U+4E0E", "U+8DDF", "U+8FDB">>

\* a default that is not flagged important
DefaultAnalysisUnimportant ==
  [kind |-> "object", has |-> RequiredFields, language |-> "en",
   category |-> FollowUpCategory, intent |-> "UNKNOWN", keywords |-> <<>>,
   suggestedTemplate |-> "", reasoning |-> "Failed to parse AI response",
   sentiment |-> "neutral", priority |-> "medium", isImportant |-> FALSE,
   suggestedActions |-> <<"Review manually">>]

\* the object analyzeEmail returns from its catch block
DefaultAnalysis ==
  [kind |-> "object", has |-> RequiredFields, language |-> "en",
   category |-> FollowUpCategory, intent |-> "UNKNOWN", keywords |-> <<>>,
   suggestedTemplate |-> "", reasoning |-> "Failed to parse AI response",
   sentiment |-> "neutral", priority |-> "medium", isImportant |-> TRUE,
   suggestedActions |-> <<"Review manually">>]

\* what the oracle may put in a reply to the analysis prompt
AnalysisValues ==
  { AnalysisObject(AnalysisFields, "zh", <<"r", "f">>, TRUE),
    AnalysisObject(AnalysisFields, "fr", <<"r", "f">>, TRUE),
    AnalysisObject(AnalysisFields, "zh", <<"x">>, TRUE),
    AnalysisObject(AnalysisFields, "zh", <<"r", "f">>, FALSE) }
  \cup { AnalysisObject(AnalysisFields \ {f}, "zh", <<"r", "f">>, TRUE) :
           f \in {"isImportant", "suggestedActions", "keywords", "category"} }
  \cup { AnalysisObject({}, "zh", <<"r", "f">>, TRUE), JsonNull }

\* the ways a reply wraps a JSON value, and replies that hold none
Wrappings(v) ==
  { <<Json(v)>>,
    <<Ws, Json(v), Ws>>,
    <<Fence, JsonWord, Ws, Json(v), Ws, Fence>>,
    <<Fence, Ws, Json(v), Ws, Fence>>,
    <<Prose(NoValue), Ws, Json(v)>> }

MalformedReplies ==
  { <<>>, <<Prose(NoValue)>>, <<Fence, JsonWord, Ws, Prose(NoValue), Ws, Fence>> }

AnalysisReplies == UNION { Wrappings(v) : v \in AnalysisValues } \cup MalformedReplies

\* JSON values of the selection contract; selectedIndex is null, an
\* integer, or a number that is not an integer (v + 0.5)
Index(t, v) == [t |-> t, v |-> v]

SelectionObject(has, idx) ==
  [kind |-> "object", has |-> has, selectedIndex |-> idx,
   reasoning |-> "addresses the request"]

SelectionNull ==
  [kind |-> "null", has |-> {}, selectedIndex |-> Index("null", 0), reasoning |-> ""]

SelectionValues ==
  { SelectionObject({"selectedIndex", "reasoning"}, Index("int", n)) :
      n \in (-1)..MaxTemplates }
  \cup { SelectionObject({"selectedIndex", "reasoning"}, Index("null", 0)),
         SelectionObject({"selectedIndex", "reasoning"}, Index("fraction", 0)),
         SelectionObject({"reasoning"}, Index("null", 0)),
         SelectionNull }

SelectionReplies == UNION { Wrappings(v) : v \in SelectionValues } \cup MalformedReplies

\* ------------------------------------------------------------------------
\* State
\* ------------------------------------------------------------------------
VARIABLES
  templates,          \* TemplateRetriever.templates
  categoryIndex,      \* TemplateRetriever.categoryIndex
  keywordIndex,       \* TemplateRetriever.keywordIndex
  templateRetriever,  \* ZhipuAIService.templateRetriever is set
  email,              \* the ProcessedEmail at hand
  retrieval,          \* the last direct call of findBestMatches and its result
  caller,             \* "main" (processEmail) or "direct" (generateResponse alone)
  useTemplates,       \* the third argument of generateResponse
  pc,                 \* where the processing of the email stands
  chat,               \* the chat call in progress
  analysis,           \* what analyzeEmail returned
  analysisResult,     \* the second argument of generateResponse
  allMatches,         \* selectTemplateWithReasoning's candidates
  decision,           \* selectTemplateWithReasoning's parsed reply
  selectedTemplate,   \* what selectTemplateWithReasoning returned
  matchedTemplates,   \* generateResponse's local list
  result,             \* what generateResponse returned
  thrown,             \* the error generateResponse or analyzeEmail raised
  outcome,            \* what processEmail returned
  malformedReply,     \* history: the reply to the analysis prompt was not JSON
  calls,              \* history: the chat calls issued for this email, in order
  timeouts,           \* history: attempts of the current chat call that timed out
  protocolErrors,     \* history: the calls that ended on a non-2xx or bad payload
  scored,             \* the last call of calculateScore and its result
  driver,             \* "main" or "testConcurrency": the script that runs
  mailbox,            \* the emails the run fetched, in order
  saveDrafts,         \* processingConfig.saveDrafts
  shouldMarkAsRead,   \* MARK_AS_READ is 'true'
  driverPc,           \* where the run stands
  batchStart,         \* the loop variable i of the batch loop, from 0
  workers,            \* the processEmail call of each email of the mailbox
  results,            \* the results array of the run
  uidsToMarkAsRead,   \* the uids collected for markAsRead
  seen,               \* the uids flagged \Seen on the server
  corpusFile,         \* the file at the path given to new TemplateRetriever
  script,             \* what the oracle answers to each of two calls in progress
  running,            \* which of the two calls the event loop is running
  parked,             \* the local variables of the call that is suspended
  alone,              \* what the first call returned when it ran on its own
  imap,               \* EmailFetcher.imap: which Imap object the fetcher holds
  connected,          \* EmailFetcher.connected
  connections,        \* the Imap objects created so far, in order
  appends             \* history: the imap.append calls, with the object's state

vars ==
  <<templates, categoryIndex, keywordIndex, templateRetriever, email, retrieval,
    caller, useTemplates, pc, chat, analysis, analysisResult, allMatches,
    decision, selectedTemplate, matchedTemplates, result, thrown, outcome,
    malformedReply, calls, timeouts, protocolErrors, scored, driver, mailbox,
    saveDrafts, shouldMarkAsRead, driverPc, batchStart, workers, results,
    uidsToMarkAsRead, seen, corpusFile, script, running, parked, alone,
    imap, connected, connections, appends>>

pairVars == <<script, running, parked, alone>>

fetcherVars == <<imap, connected, connections, appends>>

driverVars ==
  <<driver, mailbox, saveDrafts, shouldMarkAsRead, driverPc, batchStart,
    workers, results, uidsToMarkAsRead, seen>>

storeVars ==
  <<templates, categoryIndex, keywordIndex, templateRetriever, corpusFile>>

\* ------------------------------------------------------------------------
\* Program constants
\* ------------------------------------------------------------------------
retries == 2            \* the default of chat's third parameter
SelectionLimit == 10    \* the limit selectTemplateWithReasoning passes

senderBlacklist == {"feedback@dailymotion.com", "noreply@dailymotion.com"}

\* toLowerCase on the sender addresses of the model
lowerAddress(a) == IF a = "NoReply@Dailymotion.com" THEN "noreply@dailymotion.com" ELSE a

Senders == {UserSender, "NoReply@Dailymotion.com"}

FallbackReasoning == "Fallback to highest scoring template due to selection error"

\* ------------------------------------------------------------------------
\* Absent values
\* ------------------------------------------------------------------------
None == [some |-> FALSE]

IdleChat ==
  [state |-> "idle", attempt |-> 0, timer |-> FALSE, ok |-> FALSE,
   error |-> "none", content |-> <<>>, purpose |-> "none", prompt |-> None]

\* ------------------------------------------------------------------------
\* chat: the retry loop around one fetch
\* ------------------------------------------------------------------------
ErrorNames == {"AbortError", "TimeoutError", "Error"}

isTimeout(name) == name = "AbortError" \/ name = "TimeoutError"

\* the first iteration of the loop: a new AbortController, the timer armed,
\* the request sent
chatBegin(purpose, prompt) ==
  /\ chat' = [state |-> "fetching", attempt |-> 0, timer |-> TRUE, ok |-> FALSE,
              error |-> "none", content |-> <<>>, purpose |-> purpose,
              prompt |-> prompt]
  /\ calls' = Append(calls, purpose)
  /\ timeouts' = 0

\* a catch block that retries after any error
chatCatchRetryAny(name, timerAfter) ==
  /\ chat' = IF chat.attempt < retries
             THEN [chat EXCEPT !.state = "backoff", !.timer = timerAfter,
                               !.error = name]
             ELSE [chat EXCEPT !.state = "raised", !.timer = timerAfter,
                               !.error = name]
  /\ timeouts' = IF isTimeout(name) THEN timeouts + 1 ELSE timeouts

\* a catch block that gives up one attempt early
chatCatchGiveUpEarly(name, timerAfter) ==
  /\ chat' = IF chat.attempt < retries - 1 /\ isTimeout(name)
             THEN [chat EXCEPT !.state = "backoff", !.timer = timerAfter,
                               !.error = name]
             ELSE [chat EXCEPT !.state = "raised", !.timer = timerAfter,
                               !.error = name]
  /\ timeouts' = IF isTimeout(name) THEN timeouts + 1 ELSE timeouts

\* the catch block of the loop
chatCatch(name, timerAfter) ==
  /\ chat' = IF chat.attempt < retries /\ isTimeout(name)
             THEN [chat EXCEPT !.state = "backoff", !.timer = timerAfter,
                               !.error = name]
             ELSE [chat EXCEPT !.state = "raised", !.timer = timerAfter,
                               !.error = name]
  /\ timeouts' = IF isTimeout(name) THEN timeouts + 1 ELSE timeouts

\* what the oracle may answer to a request
Replies(purpose, prompt) ==
  CASE purpose = "analyze" -> AnalysisReplies
    [] purpose = "select" -> SelectionReplies
    [] purpose = "personalize" ->
         { <<Prose([kind |-> "personalized", of |-> prompt])>>,
           <<Ws, Prose([kind |-> "personalized", of |-> prompt]), Ws>> }
    [] OTHER -> { <<Prose([kind |-> "freeform", of |-> prompt])>> }

restVars ==
  <<storeVars, decision, malformedReply, email, retrieval, caller, useTemplates, pc, analysis,
    analysisResult, allMatches, selectedTemplate, matchedTemplates, result,
    thrown, outcome>>

\* the 90 s timer fires while fetch is pending: controller.abort() rejects
\* the fetch with an AbortError
FetchAborted ==
  /\ chat.state = "fetching" /\ chat.timer
  /\ chatCatch("AbortError", FALSE)
  /\ UNCHANGED <<restVars, calls>>
  /\ UNCHANGED <<protocolErrors, scored, driverVars, pairVars, fetcherVars>>

\* fetch rejects for another reason (a network failure, or an error named
\* TimeoutError)
FetchRejected ==
  /\ chat.state = "fetching"
  /\ \E name \in {"TimeoutError", "Error"} : chatCatch(name, chat.timer)
  /\ UNCHANGED <<restVars, calls>>
  /\ UNCHANGED <<protocolErrors, scored, driverVars, pairVars, fetcherVars>>

\* fetch resolves with the response headers; clearTimeout(timeoutId)
FetchResolved ==
  /\ chat.state = "fetching"
  /\ \E ok \in BOOLEAN :
       chat' = [chat EXCEPT !.state = "reading", !.ok = ok, !.timer = FALSE]
  /\ UNCHANGED <<restVars, calls, timeouts>>
  /\ UNCHANGED <<protocolErrors, scored, driverVars, pairVars, fetcherVars>>

\* the body is read: response.text() and the API error when not ok;
\* response.json(), which may fail, may hold no choices, or holds the content
BodyRead ==
  /\ chat.state = "reading"
  /\ IF ~chat.ok
     THEN /\ chatCatch("Error", FALSE)
          /\ protocolErrors' = protocolErrors \cup {chat.purpose}
     ELSE \/ /\ chatCatch("Error", FALSE)
             /\ protocolErrors' = protocolErrors \cup {chat.purpose}
          \/ /\ \E c \in Replies(chat.purpose, chat.prompt) :
                   chat' = [chat EXCEPT !.state = "returned", !.content = c]
             /\ UNCHANGED <<timeouts, protocolErrors>>
  /\ UNCHANGED <<restVars, calls, scored, driverVars, pairVars, fetcherVars>>

\* the 2 s wait is over: continue with the next iteration
BackoffElapsed ==
  /\ chat.state = "backoff"
  /\ chat' = [chat EXCEPT !.state = "fetching", !.attempt = @ + 1,
                          !.timer = TRUE, !.error = "none"]
  /\ UNCHANGED <<restVars, calls, timeouts>>
  /\ UNCHANGED <<protocolErrors, scored, driverVars, pairVars, fetcherVars>>

\* ------------------------------------------------------------------------
\* ZhipuAIService.analyzeEmail
\* ------------------------------------------------------------------------
\* a caller that goes on without awaiting the end of its chat call
chatNotAwaited(purpose) ==
  chat.purpose = purpose

\* await this.chat(...) : the caller resumes when its chat call has ended
chatEnded(purpose) ==
  /\ chat.purpose = purpose
  /\ chat.state \in {"returned", "raised"}

\* a reply that is not a JSON text, bare or inside a code fence: it holds
\* no JSON value, or holds other text besides
NotJson(text) ==
  \/ \A i \in 1..Len(text) : text[i].tok # "value"
  \/ \E i \in 1..Len(text) : text[i].tok = "prose"

\* a parse that takes the first JSON value found anywhere in the reply
parseAnalysisExtract(response) ==
  LET values == SelectSeq(response, LAMBDA t : t.tok = "value")
  IN IF values = <<>> THEN DefaultAnalysis ELSE values[1].value

\* the try/catch around the cleaning and JSON.parse of the reply
parseAnalysis(response) ==
  LET parsed == JSONparse(cleanResponse(response))
  IN IF parsed = ParseError THEN DefaultAnalysis ELSE parsed

\* the prompt is built and the chat call issued
AnalyzeEmailCall ==
  /\ pc = "start"
  /\ ~(lowerAddress(email.from) \in senderBlacklist)
  /\ pc' = "analyzeEmail"
  /\ chatBegin("analyze", [some |-> TRUE, email |-> email,
                           categories |-> MapKeys(categoryIndex)])
  /\ UNCHANGED <<storeVars, decision, malformedReply, email, retrieval, caller, useTemplates, analysis,
                 analysisResult, allMatches, selectedTemplate, matchedTemplates,
                 result, thrown, outcome>>
  /\ UNCHANGED <<protocolErrors, scored, driverVars, pairVars, fetcherVars>>

\* the chat call ended: its error propagates, its reply is parsed
AnalyzeEmailReturn ==
  /\ pc = "analyzeEmail" /\ chatEnded("analyze")
  /\ IF chat.state = "raised"
     THEN /\ thrown' = [some |-> TRUE, name |-> chat.error, from |-> "analyzeEmail"]
          /\ UNCHANGED <<analysis, malformedReply>>
     ELSE /\ analysis' = parseAnalysis(chat.content)
          /\ malformedReply' = NotJson(chat.content)
          /\ UNCHANGED thrown
  /\ pc' = "analyzed"
  /\ chat' = IdleChat
  /\ UNCHANGED <<storeVars, decision, email, retrieval, caller, useTemplates,
                 analysisResult, allMatches, selectedTemplate, matchedTemplates,
                 result, outcome, calls, timeouts>>
  /\ UNCHANGED <<protocolErrors, scored, driverVars, pairVars, fetcherVars>>

\* ------------------------------------------------------------------------
\* ZhipuAIService.generateResponse
\* ------------------------------------------------------------------------
\* const detectedLanguage = language || 'en'
detectedLanguage(a) ==
  IF "language" \in a.has /\ a.language # "" THEN a.language ELSE "en"

\* a test of the key only: an empty category counts as a category
hasCategoryKeyOnly(a) == "category" \in a.has

\* category is truthy
hasCategory(a) == "category" \in a.has /\ a.category # <<>>

Undefined == [defined |-> FALSE, list |-> <<>>]

Defined(list) == [defined |-> TRUE, list |-> list]

\* a response that is a reply of the oracle
Text(tokens) == [kind |-> "text", text |-> tokens]

\* the manual-review notice: a fixed text around these five values
manualReviewMessage(a, e) ==
  [kind |-> "manualReview",
   category |-> a.category,
   intent |-> IF "intent" \in a.has THEN a.intent ELSE "undefined",
   keywords |-> IF "keywords" \in a.has /\ a.keywords # <<>>
                THEN a.keywords ELSE <<"none">>,
   sender |-> e.from,
   subject |-> e.subject]

\* the branch taken when selectTemplateWithReasoning returned null
returnManualReview ==
  /\ result' = [some |-> TRUE,
                response |-> manualReviewMessage(analysisResult, email),
                language |-> detectedLanguage(analysisResult),
                matchedTemplates |-> Undefined]
  /\ pc' = "responded"

selected(m, reasoning) ==
  [some |-> TRUE, template |-> m.template, scenario |-> m.template.scenario,
   score |-> m.score, reasoning |-> reasoning]

\* that branch without the push onto matchedTemplates
personalizeNoPush(sel) ==
  /\ selectedTemplate' = sel
  /\ UNCHANGED matchedTemplates
  /\ chatBegin("personalize",
       [some |-> TRUE,
        templateContent |->
          getTemplateContent(sel.template, detectedLanguage(analysisResult)),
        email |-> email,
        language |-> detectedLanguage(analysisResult)])
  /\ pc' = "personalize"

\* the branch taken when selectTemplateWithReasoning returned a template:
\* its text is fetched, matchedTemplates filled, personalizeTemplate called
personalize(sel) ==
  /\ selectedTemplate' = sel
  /\ matchedTemplates' =
       Append(matchedTemplates,
              [id |-> sel.template.id, scenario |-> sel.template.scenario,
               score |-> sel.score])
  /\ chatBegin("personalize",
       [some |-> TRUE,
        templateContent |->
          getTemplateContent(sel.template, detectedLanguage(analysisResult)),
        email |-> email,
        language |-> detectedLanguage(analysisResult)])
  /\ pc' = "personalize"

\* entry of generateResponse, up to its first oracle call or, with no
\* candidates, up to its return
GenerateResponseCall ==
  /\ pc = "generateResponse"
  /\ IF useTemplates /\ templateRetriever /\ hasCategory(analysisResult)
     THEN LET found == findBestMatches(templates, categoryIndex, email,
                                       analysisResult.category, SelectionLimit)
              store == storeAfterFindBestMatches(templates, categoryIndex,
                                                 analysisResult.category)
          IN /\ allMatches' = found
             /\ templates' = store.templates
             /\ categoryIndex' = store.categoryIndex
             /\ IF Len(found) = 0
                THEN /\ returnManualReview
                     /\ UNCHANGED <<chat, calls, timeouts>>
                ELSE /\ chatBegin("select",
                          [some |-> TRUE, email |-> email,
                           category |-> analysisResult.category,
                           options |-> Len(found)])
                     /\ pc' = "select"
                     /\ UNCHANGED result
     ELSE /\ chatBegin("freeform",
               [some |-> TRUE, email |-> email,
                language |-> detectedLanguage(analysisResult)])
          /\ pc' = "freeform"
          /\ UNCHANGED <<allMatches, result, templates, categoryIndex>>
  /\ UNCHANGED <<keywordIndex, templateRetriever, corpusFile, decision, malformedReply,
                 email, retrieval, caller, useTemplates, analysis,
                 analysisResult, selectedTemplate, matchedTemplates, thrown,
                 outcome>>
  /\ UNCHANGED <<protocolErrors, scored, driverVars, pairVars, fetcherVars>>

\* the test without its comparison with null: null >= 0 and null < n hold,
\* and the entry at index null is undefined
decideNoNullCheck(d, n) ==
  IF d.kind = "null" THEN [act |-> "error", index |-> 0]
  ELSE IF "selectedIndex" \in d.has
          /\ d.selectedIndex.v >= 0
          /\ (IF d.selectedIndex.t = "fraction"
              THEN 2 * d.selectedIndex.v + 1 < 2 * n
              ELSE d.selectedIndex.v < n)
       THEN IF d.selectedIndex.t = "int"
            THEN [act |-> "index", index |-> d.selectedIndex.v]
            ELSE [act |-> "error", index |-> 0]
       ELSE [act |-> "none", index |-> 0]

\* the test without its lower bound: the entry at a negative index is
\* undefined, and reading its template raises a TypeError
decideNoLowerBound(d, n) ==
  IF d.kind = "null" THEN [act |-> "error", index |-> 0]
  ELSE IF "selectedIndex" \in d.has
          /\ d.selectedIndex.t # "null"
          /\ (IF d.selectedIndex.t = "int"
              THEN d.selectedIndex.v < n
              ELSE 2 * d.selectedIndex.v + 1 < 2 * n)
       THEN IF d.selectedIndex.t = "int" /\ d.selectedIndex.v >= 0
            THEN [act |-> "index", index |-> d.selectedIndex.v]
            ELSE [act |-> "error", index |-> 0]
       ELSE [act |-> "none", index |-> 0]

\* the test of selectTemplateWithReasoning on a parsed reply d with n
\* candidates: "index" n, "none", or "error" when reading the reply or the
\* chosen entry raises a TypeError
decide(d, n) ==
  IF d.kind = "null" THEN [act |-> "error", index |-> 0]
  ELSE IF "selectedIndex" \in d.has
          /\ d.selectedIndex.t # "null"
          /\ d.selectedIndex.v >= 0
          /\ (IF d.selectedIndex.t = "int"
              THEN d.selectedIndex.v < n
              ELSE 2 * d.selectedIndex.v + 1 < 2 * n)
       THEN IF d.selectedIndex.t = "int"
            THEN [act |-> "index", index |-> d.selectedIndex.v]
            ELSE [act |-> "error", index |-> 0]
       ELSE [act |-> "none", index |-> 0]

\* the value of decision once the chat call ended: the parsed reply, the
\* SyntaxError of JSON.parse, or nothing when the chat call raised
ChatRaised == [kind |-> "raised"]

parseDecision(c) ==
  IF c.state = "raised" THEN ChatRaised ELSE JSONparse(cleanResponse(c.content))

\* a catch block that returns null instead of the first candidate
selectTemplateNoFallback(c, matches) ==
  LET parsed == parseDecision(c)
  IN IF parsed = ChatRaised \/ parsed = ParseError THEN None
     ELSE LET d == decide(parsed, Len(matches))
          IN CASE d.act = "error" -> None
               [] d.act = "index" -> selected(matches[d.index + 1], parsed.reasoning)
               [] OTHER -> None

\* what selectTemplateWithReasoning returns once its chat call ended; the
\* try block holds the chat call, the parse and the test, and its catch
\* block returns the first candidate
selectTemplate(c, matches) ==
  LET fallback == selected(matches[1], FallbackReasoning)
      parsed == parseDecision(c)
  IN IF parsed = ChatRaised \/ parsed = ParseError THEN fallback
     ELSE LET d == decide(parsed, Len(matches))
          IN CASE d.act = "error" -> fallback
               [] d.act = "index" -> selected(matches[d.index + 1], parsed.reasoning)
               [] OTHER -> None

\* the selection call ended
SelectReturn ==
  /\ pc = "select" /\ chatEnded("select")
  /\ decision' = parseDecision(chat)
  /\ LET sel == selectTemplate(chat, allMatches)
     IN IF sel.some
        THEN /\ personalize(sel)
             /\ UNCHANGED result
        ELSE /\ returnManualReview
             /\ selectedTemplate' = None
             /\ chat' = IdleChat
             /\ UNCHANGED <<matchedTemplates, calls, timeouts>>
  /\ UNCHANGED <<storeVars, malformedReply, email, retrieval, caller, useTemplates, analysis,
                 analysisResult, allMatches, thrown, outcome>>
  /\ UNCHANGED <<protocolErrors, scored, driverVars, pairVars, fetcherVars>>

\* the personalization call ended: response.trim() is the reply
PersonalizeReturn ==
  /\ pc = "personalize" /\ chatEnded("personalize")
  /\ IF chat.state = "raised"
     THEN /\ thrown' = [some |-> TRUE, name |-> chat.error,
                        from |-> "generateResponse"]
          /\ UNCHANGED result
     ELSE /\ result' = [some |-> TRUE, response |-> Text(trim(chat.content)),
                        language |-> detectedLanguage(analysisResult),
                        matchedTemplates |-> Defined(matchedTemplates)]
          /\ UNCHANGED thrown
  /\ pc' = "responded"
  /\ chat' = IdleChat
  /\ UNCHANGED <<storeVars, decision, malformedReply, email, retrieval, caller, useTemplates, analysis,
                 analysisResult, allMatches, selectedTemplate, matchedTemplates,
                 outcome, calls, timeouts>>
  /\ UNCHANGED <<protocolErrors, scored, driverVars, pairVars, fetcherVars>>

\* the free-form call ended
FreeFormReturn ==
  /\ pc = "freeform" /\ chatEnded("freeform")
  /\ IF chat.state = "raised"
     THEN /\ thrown' = [some |-> TRUE, name |-> chat.error,
                        from |-> "generateResponse"]
          /\ UNCHANGED result
     ELSE /\ result' = [some |-> TRUE, response |-> Text(chat.content),
                        language |-> detectedLanguage(analysisResult),
                        matchedTemplates |->
                          IF Len(matchedTemplates) > 0
                          THEN Defined(matchedTemplates) ELSE Undefined]
          /\ UNCHANGED thrown
  /\ pc' = "responded"
  /\ chat' = IdleChat
  /\ UNCHANGED <<storeVars, decision, malformedReply, email, retrieval, caller, useTemplates, analysis,
                 analysisResult, allMatches, selectedTemplate, matchedTemplates,
                 outcome, calls, timeouts>>
  /\ UNCHANGED <<protocolErrors, scored, driverVars, pairVars, fetcherVars>>

\* ------------------------------------------------------------------------
\* main.processEmail: the worker of one email
\* ------------------------------------------------------------------------
LogLevels == {"minimal", "info", "debug"}

\* the sender is on the blacklist: skipped before any analysis
SkipBlacklisted ==
  /\ pc = "start"
  /\ lowerAddress(email.from) \in senderBlacklist
  /\ outcome' = [some |-> TRUE, type |-> "skipped", messageId |-> FALSE]
  /\ pc' = "done"
  /\ UNCHANGED <<storeVars, decision, malformedReply, email, retrieval, caller, useTemplates, chat,
                 analysis, analysisResult, allMatches, selectedTemplate,
                 matchedTemplates, result, thrown, calls, timeouts>>
  /\ UNCHANGED <<protocolErrors, scored, driverVars, pairVars, fetcherVars>>

\* a test that lets every email through
isImportantAlways(a) ==
  TRUE

\* analysis.isImportant is truthy
isImportant(a) ==
  "isImportant" \in a.has /\ a.isImportant

\* reading the analysis for the log raises a TypeError
logRaises(a, logLevel) ==
  \/ a.kind = "null"
  \/ logLevel = "debug" /\ ~("keywords" \in a.has)
  \/ ~("suggestedActions" \in a.has)

\* the analysis is back: log it, skip the email when it is not important,
\* else call generateResponse with the analysed fields and useTemplates true
ProcessAnalysis ==
  /\ pc = "analyzed" /\ caller = "main"
  /\ \E logLevel \in LogLevels :
       IF thrown.some \/ logRaises(analysis, logLevel)
       THEN /\ outcome' = [some |-> TRUE, type |-> "error", messageId |-> FALSE]
            /\ pc' = "done"
            /\ UNCHANGED analysisResult
       ELSE IF ~isImportant(analysis)
            THEN /\ outcome' = [some |-> TRUE, type |-> "skipped",
                                messageId |-> FALSE]
                 /\ pc' = "done"
                 /\ UNCHANGED analysisResult
            ELSE /\ analysisResult' =
                      [analysis EXCEPT
                         !.has = @ \cap {"category", "intent", "keywords",
                                         "suggestedTemplate", "language"}]
                 /\ pc' = "generateResponse"
                 /\ UNCHANGED outcome
  /\ UNCHANGED <<storeVars, decision, malformedReply, email, retrieval, caller, useTemplates, chat,
                 analysis, allMatches, selectedTemplate, matchedTemplates,
                 result, thrown, calls, timeouts>>
  /\ UNCHANGED <<protocolErrors, scored, driverVars, pairVars, fetcherVars>>

\* generateResponse is back: an error ends the email as 'error'; else the
\* draft is saved when drafts are enabled (appendDraft may fail, which is
\* only logged) and the email ends as 'processed'
ProcessResponse ==
  /\ pc = "responded" /\ caller = "main"
  /\ IF thrown.some
     THEN outcome' = [some |-> TRUE, type |-> "error", messageId |-> FALSE]
     ELSE \E shouldSaveDrafts \in BOOLEAN, appended \in BOOLEAN :
            outcome' = [some |-> TRUE, type |-> "processed",
                        messageId |-> shouldSaveDrafts /\ appended]
  /\ pc' = "done"
  /\ UNCHANGED <<storeVars, decision, malformedReply, email, retrieval, caller, useTemplates, chat,
                 analysis, analysisResult, allMatches, selectedTemplate,
                 matchedTemplates, result, thrown, calls, timeouts>>
  /\ UNCHANGED <<protocolErrors, scored, driverVars, pairVars, fetcherVars>>

\* generateResponse called on its own is back at its caller
DirectReturn ==
  /\ pc = "responded" /\ caller = "direct"
  /\ pc' = "done"
  /\ UNCHANGED <<storeVars, decision, malformedReply, email, retrieval, caller, useTemplates, chat,
                 analysis, analysisResult, allMatches, selectedTemplate,
                 matchedTemplates, result, thrown, outcome, calls, timeouts>>
  /\ UNCHANGED <<protocolErrors, scored, driverVars, pairVars, fetcherVars>>

\* ------------------------------------------------------------------------
\* Specifications
\* ------------------------------------------------------------------------
\* the state after new TemplateRetriever(path) on a corpus
StoreInit(corpus) ==
  /\ corpusFile = FileOf(corpus)
  /\ templates = corpus
  /\ categoryIndex = buildCategoryIndex(corpus, <<>>)
  /\ keywordIndex = buildKeywordIndex(corpus, <<>>)

NoCall == [some |-> FALSE]

WorkerIdle ==
  /\ chat = IdleChat
  /\ decision = NoValue
  /\ malformedReply = FALSE
  /\ analysis = None
  /\ allMatches = <<>>
  /\ selectedTemplate = None
  /\ matchedTemplates = <<>>
  /\ result = None
  /\ thrown = None
  /\ outcome = None
  /\ calls = <<>>
  /\ timeouts = 0
  /\ protocolErrors = {}
  /\ script = <<>>
  /\ running = "none"
  /\ parked = None
  /\ alone = None

\* the mail server connection is not looked at
NoFetcher ==
  /\ imap = 0
  /\ connected = FALSE
  /\ connections = <<>>
  /\ appends = {}

\* no run of a driver script: one email or one call is looked at on its own
NoRun ==
  /\ driver = "none"
  /\ mailbox = <<>>
  /\ saveDrafts = FALSE
  /\ shouldMarkAsRead = FALSE
  /\ driverPc = "none"
  /\ batchStart = 0
  /\ workers = <<>>
  /\ results = <<>>
  /\ uidsToMarkAsRead = <<>>
  /\ seen = {}

\* the analysisResult arguments of a direct call of generateResponse
DirectArguments ==
  { AnalysisObject(has, l, c, TRUE) :
      has \in { {"category", "intent", "keywords", "language"},
                {"category"}, {"intent", "language"} },
      l \in {"zh"},
      c \in {<<"r", "f">>, <<>>} }

\* the emails of the pipeline: no candidate, several candidates, and
\* candidates of equal score
MainBodies == {<<>>, Wabc, Wabc \o Wdef} \cap Bodies

MainEmails == { e \in Emails(Senders) : e.subject = <<>> /\ e.text \in MainBodies }

DirectEmails == { e \in Emails({UserSender}) : e.subject = <<>> /\ e.text = Wabc }

\* main: one email through processEmail, on a service with a store
InitMain ==
  /\ \E corpus \in Corpora : StoreInit(corpus)
  /\ templateRetriever = TRUE
  /\ email \in MainEmails
  /\ caller = "main"
  /\ useTemplates = TRUE
  /\ analysisResult = None
  /\ pc = "start"

\* a test script: generateResponse on its own, with or without a store
InitDirect ==
  /\ \/ /\ templateRetriever = TRUE
        /\ \E corpus \in Corpora : StoreInit(corpus)
     \/ /\ templateRetriever = FALSE
        /\ StoreInit(<<>>)
  /\ email \in DirectEmails
  /\ caller = "direct"
  /\ useTemplates \in BOOLEAN
  /\ analysisResult \in DirectArguments
  /\ pc = "generateResponse"

Init ==
  /\ InitMain \/ InitDirect
  /\ retrieval = NoCall
  /\ scored = NoCall
  /\ WorkerIdle
  /\ NoFetcher
  /\ NoRun

Next ==
  \/ SkipBlacklisted
  \/ AnalyzeEmailCall
  \/ FetchAborted
  \/ FetchRejected
  \/ FetchResolved
  \/ BodyRead
  \/ BackoffElapsed
  \/ AnalyzeEmailReturn
  \/ ProcessAnalysis
  \/ GenerateResponseCall
  \/ SelectReturn
  \/ PersonalizeReturn
  \/ FreeFormReturn
  \/ ProcessResponse
  \/ DirectReturn

Spec == Init /\ [][Next]_vars

\* generateResponse called on its own for one email on a one-template store,
\* followed to the end of its oracle calls
InitLive ==
  /\ templateRetriever = TRUE
  /\ \E corpus \in Corpora : Len(corpus) = 1 /\ corpus[1].id = "A" /\ StoreInit(corpus)
  /\ email \in DirectEmails
  /\ caller = "direct"
  /\ useTemplates \in BOOLEAN
  /\ analysisResult =
       AnalysisObject({"category", "intent", "keywords", "language"},
                      "zh", <<"r", "f">>, TRUE)
  /\ pc = "generateResponse"
  /\ retrieval = NoCall
  /\ scored = NoCall
  /\ WorkerIdle
  /\ NoFetcher
  /\ NoRun

NextLive ==
  \/ GenerateResponseCall
  \/ FetchAborted
  \/ FetchRejected
  \/ FetchResolved
  \/ BodyRead
  \/ BackoffElapsed
  \/ SelectReturn
  \/ PersonalizeReturn
  \/ FreeFormReturn
  \/ DirectReturn

\* what the runtime guarantees to happen: an armed timer fires (the 90 s
\* abort while the fetch is pending, the 2 s backoff), and a settled promise
\* resumes the function that awaits it; when the oracle answers is up to
\* the network
Fairness ==
  /\ WF_vars(FetchAborted)
  /\ WF_vars(BackoffElapsed)
  /\ WF_vars(GenerateResponseCall)
  /\ WF_vars(SelectReturn)
  /\ WF_vars(PersonalizeReturn)
  /\ WF_vars(FreeFormReturn)
  /\ WF_vars(DirectReturn)

SpecLive == InitLive /\ [][NextLive]_vars /\ Fairness

\* the retriever on its own: findBestMatches called with any category and
\* limit on a loaded store
CallFindBestMatches ==
  /\ pc = "idle"
  /\ retrieval = NoCall
  /\ \E category \in RequestedCategories, limit \in Limits :
       LET store == storeAfterFindBestMatches(templates, categoryIndex, category)
       IN /\ retrieval' =
               [some |-> TRUE, category |-> category, limit |-> limit,
                candidates |-> getCandidates(templates, categoryIndex, category),
                matches |-> findBestMatches(templates, categoryIndex, email,
                                            category, limit),
                again |-> NoCall]
          /\ templates' = store.templates
          /\ categoryIndex' = store.categoryIndex
  /\ UNCHANGED <<keywordIndex, templateRetriever, corpusFile, decision, malformedReply,
                 email, caller, useTemplates, pc, chat, analysis,
                 analysisResult, allMatches, selectedTemplate, matchedTemplates,
                 result, thrown, outcome, calls, timeouts>>
  /\ UNCHANGED <<protocolErrors, scored, driverVars, pairVars, fetcherVars>>

\* findBestMatches called a second time with the email, category and limit
\* of the first call
CallFindBestMatchesAgain ==
  /\ pc = "idle"
  /\ retrieval.some
  /\ ~retrieval.again.some
  /\ LET store == storeAfterFindBestMatches(templates, categoryIndex,
                                            retrieval.category)
     IN /\ retrieval' =
             [retrieval EXCEPT !.again =
                [some |-> TRUE,
                 matches |-> findBestMatches(templates, categoryIndex, email,
                                             retrieval.category,
                                             retrieval.limit)]]
        /\ templates' = store.templates
        /\ categoryIndex' = store.categoryIndex
  /\ UNCHANGED <<keywordIndex, templateRetriever, corpusFile, decision, malformedReply,
                 email, caller, useTemplates, pc, chat, analysis,
                 analysisResult, allMatches, selectedTemplate, matchedTemplates,
                 result, thrown, outcome, calls, timeouts>>
  /\ UNCHANGED <<protocolErrors, scored, driverVars, pairVars, fetcherVars>>

\* the scoring step of findBestMatches on one template of the store:
\* calculateScore on the lowercased subject, space and body and on its tokens
CallCalculateScore ==
  /\ pc = "idle"
  /\ scored = NoCall
  /\ \E i \in 1..Len(templates) :
       LET emailText == toLowerCase(email.subject \o <<" ">> \o email.text)
           r == calculateScore(templates[i], extractKeywords(emailText), emailText)
       IN scored' = [some |-> TRUE, template |-> templates[i],
                     score |-> r.score, matchedKeywords |-> r.matchedKeywords]
  /\ UNCHANGED <<storeVars, decision, malformedReply, email, retrieval, caller,
                 useTemplates, pc, chat, analysis, analysisResult, allMatches,
                 selectedTemplate, matchedTemplates, result, thrown, outcome,
                 calls, timeouts, protocolErrors, driverVars, pairVars, fetcherVars>>

InitRetriever ==
  /\ \E corpus \in Corpora : StoreInit(corpus)
  /\ templateRetriever = TRUE
  /\ email \in Emails({UserSender})
  /\ caller = "none"
  /\ useTemplates = TRUE
  /\ analysisResult = None
  /\ pc = "idle"
  /\ retrieval = NoCall
  /\ scored = NoCall
  /\ WorkerIdle
  /\ NoFetcher
  /\ NoRun

NextRetriever ==
  \/ CallFindBestMatches
  \/ CallFindBestMatchesAgain
  \/ CallCalculateScore

SpecRetriever == InitRetriever /\ [][NextRetriever]_vars

\* ------------------------------------------------------------------------
\* The construction of the store
\* ------------------------------------------------------------------------
\* new TemplateRetriever(path): loadTemplates, then buildIndexes, whose
\* this.templates.forEach raises a TypeError on a value that is no array.
\* An error leaves the caller without a retriever (the half-built object is
\* dropped); nothing else is checked, and the version is never read
NewTemplateRetriever ==
  /\ pc = "new"
  /\ LET loaded == loadTemplates(corpusFile)
         name == IF loaded.raised # "none" THEN loaded.raised
                 ELSE IF ~loaded.templates.array THEN "TypeError"
                 ELSE "none"
     IN IF name # "none"
        THEN /\ thrown' = [some |-> TRUE, name |-> name, from |-> "constructor"]
             /\ pc' = "failed"
             /\ UNCHANGED <<templates, categoryIndex, keywordIndex,
                            templateRetriever>>
        ELSE /\ templates' = loaded.templates.items
             /\ categoryIndex' = buildCategoryIndex(loaded.templates.items,
                                                    categoryIndex)
             /\ keywordIndex' = buildKeywordIndex(loaded.templates.items,
                                                  keywordIndex)
             /\ templateRetriever' = TRUE
             /\ pc' = "idle"
             /\ UNCHANGED thrown
  /\ UNCHANGED <<corpusFile, decision, malformedReply, email, retrieval, caller,
                 useTemplates, chat, analysis, analysisResult, allMatches,
                 selectedTemplate, matchedTemplates, result, outcome, calls,
                 timeouts, protocolErrors, scored, driverVars, pairVars, fetcherVars>>

\* buildIndexes run once more on the loaded store: the same pass over
\* this.templates, pushing onto the maps as they are
BuildIndexesAgain ==
  /\ pc = "idle"
  /\ categoryIndex' = buildCategoryIndex(templates, categoryIndex)
  /\ keywordIndex' = buildKeywordIndex(templates, keywordIndex)
  /\ pc' = "rebuilt"
  /\ UNCHANGED <<templates, templateRetriever, corpusFile, decision,
                 malformedReply, email, retrieval, caller, useTemplates, chat,
                 analysis, analysisResult, allMatches, selectedTemplate,
                 matchedTemplates, result, thrown, outcome, calls, timeouts,
                 protocolErrors, scored, driverVars, pairVars, fetcherVars>>

\* before the constructor runs: the field initialisers of the class
InitLoad ==
  /\ corpusFile \in Files
  /\ templates = <<>>
  /\ categoryIndex = <<>>
  /\ keywordIndex = <<>>
  /\ templateRetriever = FALSE
  /\ email \in DirectEmails
  /\ caller = "none"
  /\ useTemplates = TRUE
  /\ analysisResult = None
  /\ pc = "new"
  /\ retrieval = NoCall
  /\ scored = NoCall
  /\ WorkerIdle
  /\ NoFetcher
  /\ NoRun

NextLoad ==
  \/ NewTemplateRetriever
  \/ BuildIndexesAgain

SpecLoad == InitLoad /\ [][NextLoad]_vars

\* ------------------------------------------------------------------------
\* main and testConcurrency: the run over a mailbox, in batches
\* ------------------------------------------------------------------------
CONCURRENCY_LIMIT == 3         \* of main
TEST_CONCURRENCY_LIMIT == 5    \* of testConcurrency

limitOf(drv) ==
  IF drv = "testConcurrency" THEN TEST_CONCURRENCY_LIMIT ELSE CONCURRENCY_LIMIT

\* what the fetch returned: emails of distinct uids, all from a user or the
\* second one from a blacklisted sender
Mailboxes(drv) ==
  { [k \in 1..n |->
       [uid |-> 10 + k,
        from |-> IF k \in b THEN "NoReply@Dailymotion.com" ELSE UserSender]] :
      n \in 0..(limitOf(drv) + MaxExtra), b \in {{}, {2}} }

emailVars ==
  <<storeVars, email, retrieval, caller, useTemplates, pc, chat, analysis,
    analysisResult, allMatches, decision, selectedTemplate, matchedTemplates,
    result, thrown, outcome, malformedReply, calls, timeouts, protocolErrors,
    scored, pairVars>>

\* what a processEmail call returns
Result(type, uid, messageId) ==
  [type |-> type, uid |-> uid, messageId |-> messageId, rejected |-> FALSE]

\* a catch block that lets the error out: the promise of processEmail rejects
rethrowError(uid) ==
  [type |-> "error", uid |-> uid, messageId |-> FALSE, rejected |-> TRUE]

\* the catch block of processEmail
catchError(uid) ==
  Result("error", uid, FALSE)

settled(r) == [state |-> "settled", result |-> r]

awaiting(what) == [state |-> what, result |-> None]

\* the blacklist test on the address as written, not lowercased
processEmailStartCaseSensitive(drv, e) ==
  IF drv = "main" /\ e.from \in senderBlacklist
  THEN settled(Result("skipped", e.uid, FALSE))
  ELSE awaiting("analyzeEmail")

\* processEmail up to its first await: a blacklisted sender (main only)
\* returns at once, any other email waits for analyzeEmail
processEmailStart(drv, e) ==
  IF drv = "main" /\ lowerAddress(e.from) \in senderBlacklist
  THEN settled(Result("skipped", e.uid, FALSE))
  ELSE awaiting("analyzeEmail")

\* a slice without its end: every remaining email
sliceToEnd(i, limit, n) ==
  n

\* the end of processedEmails.slice(i, i + CONCURRENCY_LIMIT)
sliceEnd(i, limit, n) ==
  IF i + limit < n THEN i + limit ELSE n

\* the positions (from 1) of the batch that starts at i
batchOf(i) == (i + 1)..sliceEnd(i, limitOf(driver), Len(mailbox))

\* one iteration of the batch loop up to its await: processEmail is called
\* on every email of the batch
startBatch(i) ==
  /\ batchStart' = i
  /\ workers' = [k \in 1..Len(mailbox) |->
                   IF k \in batchOf(i)
                   THEN processEmailStart(driver, mailbox[k]) ELSE workers[k]]
  /\ driverPc' = "batch"

\* the fetch returned: an empty mailbox ends the run, else the first batch
\* starts
FetchReturns ==
  /\ driverPc = "fetch"
  /\ IF Len(mailbox) = 0
     THEN /\ driverPc' = "returned"
          /\ UNCHANGED <<batchStart, workers>>
     ELSE startBatch(0)
  /\ UNCHANGED <<emailVars, fetcherVars, driver, mailbox, saveDrafts, shouldMarkAsRead,
                 results, uidsToMarkAsRead, seen>>

runVars ==
  <<emailVars, fetcherVars, driver, mailbox, saveDrafts, shouldMarkAsRead,
    driverPc, batchStart, results, uidsToMarkAsRead, seen>>

\* analyzeEmail is back for email k: an error (of analyzeEmail, or of the
\* logging of its result) is caught, an email that is not important is
\* skipped, any other waits for generateResponse
AnalysisEnds(k) ==
  /\ driverPc = "batch" /\ workers[k].state = "analyzeEmail"
  /\ \E how \in {"raised", "notImportant", "important"} :
       workers' =
         [workers EXCEPT ![k] =
            CASE how = "raised" -> settled(catchError(mailbox[k].uid))
              [] how = "notImportant" ->
                   settled(Result("skipped", mailbox[k].uid, FALSE))
              [] OTHER -> awaiting("generateResponse")]
  /\ UNCHANGED runVars

\* generateResponse is back for email k: an error is caught; else main
\* saves the draft when drafts are enabled, and the email is processed
ResponseEnds(k) ==
  /\ driverPc = "batch" /\ workers[k].state = "generateResponse"
  /\ \E raised \in BOOLEAN :
       workers' =
         [workers EXCEPT ![k] =
            IF raised THEN settled(catchError(mailbox[k].uid))
            ELSE IF driver = "main" /\ saveDrafts THEN awaiting("appendDraft")
                 ELSE settled(Result("processed", mailbox[k].uid, FALSE))]
  /\ UNCHANGED runVars

\* appendDraft is back for email k: its error is only logged and leaves
\* messageId undefined
DraftEnds(k) ==
  /\ driverPc = "batch" /\ workers[k].state = "appendDraft"
  /\ \E appended \in BOOLEAN :
       workers' = [workers EXCEPT ![k] =
                     settled(Result("processed", mailbox[k].uid, appended))]
  /\ UNCHANGED runVars

\* a collection that takes every result
marksAsReadAny(r) ==
  TRUE

\* the results whose uid is collected for markAsRead
marksAsRead(r) ==
  r.type = "skipped" \/ r.type = "processed"

\* the statistics loop of main: the uids to mark as read, in result order
collectUids(rs) ==
  LET kept == SelectSeq(rs, marksAsRead)
  IN [j \in 1..Len(kept) |-> kept[j].uid]

\* Promise.all of the batch settles: it rejects as soon as one processEmail
\* rejects (the error is fatal to the run), and resolves when all have
\* returned.  The results are pushed; with emails left the loop waits 2 s;
\* else the statistics are collected and main calls markAsRead when it is
\* enabled and there is a uid to mark
BatchSettled ==
  /\ driverPc = "batch"
  /\ LET batch == batchOf(batchStart)
         all == results \o [j \in 1..Cardinality(batch) |->
                              workers[batchStart + j].result]
         uids == IF driver = "main" THEN collectUids(all) ELSE <<>>
     IN IF \E k \in batch : workers[k].state = "settled" /\ workers[k].result.rejected
        THEN /\ driverPc' = "fatal"
             /\ UNCHANGED <<results, uidsToMarkAsRead>>
        ELSE /\ \A k \in batch : workers[k].state = "settled"
             /\ results' = all
             /\ IF batchStart + limitOf(driver) < Len(mailbox)
                THEN /\ driverPc' = "pause"
                     /\ UNCHANGED uidsToMarkAsRead
                ELSE /\ uidsToMarkAsRead' = uids
                     /\ driverPc' = IF driver = "main" /\ shouldMarkAsRead
                                        /\ Len(uids) > 0
                                     THEN "markAsRead" ELSE "completed"
  /\ UNCHANGED <<emailVars, fetcherVars, driver, mailbox, saveDrafts, shouldMarkAsRead,
                 batchStart, workers, seen>>

\* the 2 s wait between batches is over: i += CONCURRENCY_LIMIT and the next
\* batch starts
PauseElapsed ==
  /\ driverPc = "pause"
  /\ startBatch(batchStart + limitOf(driver))
  /\ UNCHANGED <<emailVars, fetcherVars, driver, mailbox, saveDrafts, shouldMarkAsRead,
                 results, uidsToMarkAsRead, seen>>

\* EmailFetcher.markAsRead is back: it flagged the uids, or it raised (not
\* connected, openBox or addFlags failed) and main only logs the error;
\* either way main prints its summary and reports completion
MarkAsReadEnds ==
  /\ driverPc = "markAsRead"
  /\ \E flagged \in BOOLEAN :
       seen' = IF flagged THEN seen \cup Range(uidsToMarkAsRead) ELSE seen
  /\ driverPc' = "completed"
  /\ UNCHANGED <<emailVars, fetcherVars, driver, mailbox, saveDrafts, shouldMarkAsRead,
                 batchStart, workers, results, uidsToMarkAsRead>>

\* a run of main or of testConcurrency, right after its services are set up
InitDriver ==
  /\ driver \in {"main", "testConcurrency"}
  /\ mailbox \in Mailboxes(driver)
  /\ saveDrafts \in (IF driver = "main" THEN BOOLEAN ELSE {FALSE})
  /\ shouldMarkAsRead \in (IF driver = "main" THEN BOOLEAN ELSE {FALSE})
  /\ driverPc = "fetch"
  /\ batchStart = 0
  /\ workers = [k \in 1..Len(mailbox) |-> awaiting("start")]
  /\ results = <<>>
  /\ uidsToMarkAsRead = <<>>
  /\ seen = {}
  /\ StoreInit(<<>>)
  /\ templateRetriever = TRUE
  /\ email \in DirectEmails
  /\ caller = "none"
  /\ useTemplates = TRUE
  /\ analysisResult = None
  /\ pc = "idle"
  /\ retrieval = NoCall
  /\ scored = NoCall
  /\ WorkerIdle
  /\ NoFetcher

NextDriver ==
  \/ FetchReturns
  \/ \E k \in 1..Len(mailbox) : AnalysisEnds(k)
  \/ \E k \in 1..Len(mailbox) : ResponseEnds(k)
  \/ \E k \in 1..Len(mailbox) : DraftEnds(k)
  \/ BatchSettled
  \/ PauseElapsed
  \/ MarkAsReadEnds

SpecDriver == InitDriver /\ [][NextDriver]_vars

\* ------------------------------------------------------------------------
\* EmailFetcher: the workers of a batch saving their drafts
\* ------------------------------------------------------------------------
\* new Imap(...) with setupEventHandlers: an object of the imap library,
\* whose state is disconnected until its socket is up, connected until the
\* login is through, and authenticated when it emits ready.  pending counts
\* the imap.connect() calls not yet answered by ready or error, and waiting
\* holds the workers whose connect() promise listens on the object
NewImap ==
  [state |-> "disconnected", pending |-> 0, waiting |-> {}]

\* the object main connected before it fetched the emails
ReadyImap ==
  [state |-> "authenticated", pending |-> 0, waiting |-> {}]

\* imap.append(rawMessage, ...) called for worker k on the object the
\* fetcher holds at that moment
appendOn(conns, k) ==
  [worker |-> k, on |-> imap, ready |-> conns[imap].state = "authenticated"]

\* connect() called with this.connected false: a disconnected object is
\* replaced by a new one with the fetcher's handlers; the promise listens
\* on this.imap and this.imap.connect() starts the connection anew
connect(k) ==
  LET fresh == connections[imap].state = "disconnected"
      objects == IF fresh THEN Append(connections, NewImap) ELSE connections
      current == IF fresh THEN Len(connections) + 1 ELSE imap
  IN [imap |-> current,
      connections |->
        [objects EXCEPT ![current].pending = @ + 1,
                        ![current].state = "disconnected",
                        ![current].waiting = @ \cup {k}]]

\* appendDraft is entered for email k: with this.connected false it awaits
\* connect(); else it builds the message and calls imap.append
AppendDraftCall(k) ==
  /\ workers[k].state = "appendDraft"
  /\ IF ~connected
     THEN /\ imap' = connect(k).imap
          /\ connections' = connect(k).connections
          /\ workers' = [workers EXCEPT ![k] = awaiting("connect")]
          /\ UNCHANGED appends
     ELSE /\ appends' = appends \cup {appendOn(connections, k)}
          /\ workers' = [workers EXCEPT ![k] = awaiting("append")]
          /\ UNCHANGED <<imap, connections>>
  /\ UNCHANGED <<emailVars, connected, driver, mailbox, saveDrafts,
                 shouldMarkAsRead, driverPc, batchStart, results,
                 uidsToMarkAsRead, seen>>

\* the socket of a connecting object is up: the library moves it to
\* connected and logs in
SocketConnected(i) ==
  /\ connections[i].pending > 0
  /\ connections[i].state = "disconnected"
  /\ connections' = [connections EXCEPT ![i].state = "connected"]
  /\ UNCHANGED <<emailVars, imap, connected, appends, workers, driver, mailbox,
                 saveDrafts, shouldMarkAsRead, driverPc, batchStart, results,
                 uidsToMarkAsRead, seen>>

\* object i emits ready: the fetcher's handler sets this.connected, the
\* connect() promises that listen on the object resolve, and each worker
\* that awaited one goes on in appendDraft and calls this.imap.append
ImapReady(i) ==
  /\ connections[i].pending > 0
  /\ connections[i].state = "connected"
  /\ connected' = TRUE
  /\ connections' = [connections EXCEPT ![i] = ReadyImap]
  /\ appends' = appends \cup { appendOn(connections', k) : k \in connections[i].waiting }
  /\ workers' = [k \in 1..Len(workers) |->
                   IF k \in connections[i].waiting
                   THEN awaiting("append") ELSE workers[k]]
  /\ UNCHANGED <<emailVars, imap, driver, mailbox, saveDrafts,
                 shouldMarkAsRead, driverPc, batchStart, results,
                 uidsToMarkAsRead, seen>>

\* object i emits error while it connects: the fetcher's handler clears
\* this.connected, the promises reject, appendDraft rejects and
\* processEmail logs the error and returns without a messageId
ImapError(i) ==
  /\ connections[i].pending > 0
  /\ connected' = FALSE
  /\ connections' = [connections EXCEPT ![i] = NewImap]
  /\ workers' = [k \in 1..Len(workers) |->
                   IF k \in connections[i].waiting
                   THEN settled(Result("processed", mailbox[k].uid, FALSE))
                   ELSE workers[k]]
  /\ UNCHANGED <<emailVars, imap, appends, driver, mailbox, saveDrafts,
                 shouldMarkAsRead, driverPc, batchStart, results,
                 uidsToMarkAsRead, seen>>

\* the server or the network ends the connection of object i: it emits
\* end, the fetcher's handler clears this.connected, and the object is
\* disconnected
ConnectionEnds(i) ==
  /\ connections[i].state = "authenticated"
  /\ connected' = FALSE
  /\ connections' = [connections EXCEPT ![i].state = "disconnected"]
  /\ UNCHANGED <<emailVars, imap, appends, workers, driver, mailbox,
                 saveDrafts, shouldMarkAsRead, driverPc, batchStart, results,
                 uidsToMarkAsRead, seen>>

\* the callback of imap.append for email k: an object that was not ready
\* cannot store the draft; a ready one stores it, or fails
AppendEnds(k) ==
  /\ workers[k].state = "append"
  /\ \E a \in appends :
       /\ a.worker = k
       /\ \E stored \in (IF a.ready THEN BOOLEAN ELSE {FALSE}) :
            workers' = [workers EXCEPT ![k] =
                          settled(Result("processed", mailbox[k].uid, stored))]
  /\ UNCHANGED <<emailVars, fetcherVars, driver, mailbox, saveDrafts,
                 shouldMarkAsRead, driverPc, batchStart, results,
                 uidsToMarkAsRead, seen>>

\* a batch of main with drafts enabled, every email of it waiting for its
\* response, on the connection main opened
InitFetcher ==
  /\ driver = "main"
  /\ mailbox \in { m \in Mailboxes("main") : Len(m) \in 2..CONCURRENCY_LIMIT
                      /\ \A k \in 1..Len(m) : m[k].from = UserSender }
  /\ saveDrafts = TRUE
  /\ shouldMarkAsRead \in BOOLEAN
  /\ driverPc = "batch"
  /\ batchStart = 0
  /\ workers = [k \in 1..Len(mailbox) |-> awaiting("generateResponse")]
  /\ results = <<>>
  /\ uidsToMarkAsRead = <<>>
  /\ seen = {}
  /\ imap = 1
  /\ connected = TRUE
  /\ connections = <<ReadyImap>>
  /\ appends = {}
  /\ StoreInit(<<>>)
  /\ templateRetriever = TRUE
  /\ email \in DirectEmails
  /\ caller = "none"
  /\ useTemplates = TRUE
  /\ analysisResult = None
  /\ pc = "idle"
  /\ retrieval = NoCall
  /\ scored = NoCall
  /\ WorkerIdle

NextFetcher ==
  \/ \E k \in 1..Len(mailbox) : ResponseEnds(k)
  \/ \E k \in 1..Len(mailbox) : AppendDraftCall(k)
  \/ \E i \in 1..Len(connections) : SocketConnected(i)
  \/ \E i \in 1..Len(connections) : ImapReady(i)
  \/ \E i \in 1..Len(connections) : ImapError(i)
  \/ \E i \in 1..Len(connections) : ConnectionEnds(i)
  \/ \E k \in 1..Len(mailbox) : AppendEnds(k)

SpecFetcher == InitFetcher /\ [][NextFetcher]_vars

\* ------------------------------------------------------------------------
\* Two processEmail calls of one batch on the one service
\* ------------------------------------------------------------------------
\* what the oracle does to one call: its reply to the analysis prompt, its
\* reply to the selection prompt, the length of its reply to the other
\* prompts, and a fault on the first attempt of one of the chat calls
NoFault == [call |-> 0, kind |-> "none"]

AnalysisPicks ==
  { <<Json(AnalysisObject(AnalysisFields, "zh", <<"r", "f">>, TRUE))>>,
    <<Fence, JsonWord, Ws,
      Json(AnalysisObject(AnalysisFields, "fr", <<"r", "f">>, TRUE)), Ws, Fence>>,
    <<Json(AnalysisObject(AnalysisFields \ {"category"}, "zh", <<"r", "f">>, TRUE))>>,
    <<Json(AnalysisObject(AnalysisFields, "zh", <<"r", "f">>, FALSE))>>,
    <<Prose(NoValue)>> }

SelectionPick(idx) == <<Json(SelectionObject({"selectedIndex", "reasoning"}, idx))>>

\* the scripts of the call that is compared, and of the call beside it
ScriptsA ==
  { [analysis |-> a, selection |-> s, wrap |-> w, fault |-> f] :
      a \in AnalysisPicks,
      s \in { SelectionPick(Index("int", 1)), SelectionPick(Index("null", 0)),
               <<Prose(NoValue)>> },
      w \in {1, 3},
      f \in {NoFault}
             \cup { [call |-> c, kind |-> k] :
                      c \in 1..3,
                      k \in {"abort", "reject", "notok", "bodyerror"} } }

ScriptsB ==
  { [analysis |-> <<Json(AnalysisObject(AnalysisFields, "zh", <<"r", "f">>, TRUE))>>,
     selection |-> s, wrap |-> 1, fault |-> NoFault] :
      s \in {SelectionPick(Index("int", 0)), SelectionPick(Index("null", 0))} }

\* the local variables and parameters of a processEmail call with the
\* analyzeEmail, generateResponse and chat calls it awaits
suspend ==
  [email |-> email, pc |-> pc, chat |-> chat, analysis |-> analysis,
   analysisResult |-> analysisResult, allMatches |-> allMatches,
   decision |-> decision, selectedTemplate |-> selectedTemplate,
   matchedTemplates |-> matchedTemplates, result |-> result,
   thrown |-> thrown, outcome |-> outcome, malformedReply |-> malformedReply,
   calls |-> calls, timeouts |-> timeouts, protocolErrors |-> protocolErrors]

\* a processEmail call that has not run yet
startOf(e) ==
  [email |-> e, pc |-> "start", chat |-> IdleChat, analysis |-> None,
   analysisResult |-> None, allMatches |-> <<>>, decision |-> NoValue,
   selectedTemplate |-> None, matchedTemplates |-> <<>>, result |-> None,
   thrown |-> None, outcome |-> None, malformedReply |-> FALSE,
   calls |-> <<>>, timeouts |-> 0, protocolErrors |-> {}]

\* matchedTemplates kept in one place for all calls, as a field of the
\* service would be
resumeSharingMatchedTemplates(saved) ==
  /\ email' = saved.email
  /\ pc' = saved.pc
  /\ chat' = saved.chat
  /\ analysis' = saved.analysis
  /\ analysisResult' = saved.analysisResult
  /\ allMatches' = saved.allMatches
  /\ decision' = saved.decision
  /\ selectedTemplate' = saved.selectedTemplate
  /\ matchedTemplates' = matchedTemplates
  /\ result' = saved.result
  /\ thrown' = saved.thrown
  /\ outcome' = saved.outcome
  /\ malformedReply' = saved.malformedReply
  /\ calls' = saved.calls
  /\ timeouts' = saved.timeouts
  /\ protocolErrors' = saved.protocolErrors

\* a call goes on after an await: with its own parameters and locals
resume(saved) ==
  /\ email' = saved.email
  /\ pc' = saved.pc
  /\ chat' = saved.chat
  /\ analysis' = saved.analysis
  /\ analysisResult' = saved.analysisResult
  /\ allMatches' = saved.allMatches
  /\ decision' = saved.decision
  /\ selectedTemplate' = saved.selectedTemplate
  /\ matchedTemplates' = saved.matchedTemplates
  /\ result' = saved.result
  /\ thrown' = saved.thrown
  /\ outcome' = saved.outcome
  /\ malformedReply' = saved.malformedReply
  /\ calls' = saved.calls
  /\ timeouts' = saved.timeouts
  /\ protocolErrors' = saved.protocolErrors

\* what a call gave back: the return values of analyzeEmail and of
\* generateResponse or the error raised, and the type of processEmail's
\* result (its messageId is the mail server's doing)
returned(f) ==
  [analysis |-> f.analysis, result |-> f.result, thrown |-> f.thrown,
   type |-> f.outcome.type, calls |-> f.calls]

\* the first call has run on its own to its end: what it returned is kept,
\* and the two calls of the batch start, the first one running
StartTogether ==
  /\ running = "A" /\ ~alone.some
  /\ pc = "done"
  /\ alone' = [some |-> TRUE, returned |-> returned(suspend)]
  /\ resume(startOf(email))
  /\ UNCHANGED <<storeVars, retrieval, scored, caller, useTemplates,
                 driverVars, fetcherVars, script, running, parked>>

\* the running call is at an await and the event loop goes on with the
\* other call of the batch
Yield ==
  /\ alone.some
  /\ parked.pc # "done"
  /\ parked' = suspend
  /\ resume(parked)
  /\ running' = IF running = "A" THEN "B" ELSE "A"
  /\ UNCHANGED <<storeVars, retrieval, scored, caller, useTemplates,
                 driverVars, fetcherVars, script, alone>>

\* the script of the running call has a fault for the attempt in progress
FaultNow(kind) ==
  /\ script[running].fault.kind = kind
  /\ script[running].fault.call = Len(calls)
  /\ chat.attempt = 0

\* the oracle's part in a step of a chat call, as the script has it: the
\* timer fires, the fetch rejects, the fetch resolves with a status, the
\* body is read
Scripted(step) ==
  CASE step = "abort" -> FaultNow("abort")
    [] step = "reject" -> FaultNow("reject") /\ chat'.error = "Error"
    [] step = "resolve" ->
         /\ ~FaultNow("abort") /\ ~FaultNow("reject")
         /\ chat'.ok = ~FaultNow("notok")
    [] OTHER ->
         \/ ~chat.ok
         \/ /\ chat.ok /\ FaultNow("bodyerror")
            /\ chat'.state # "returned"
         \/ /\ chat.ok /\ ~FaultNow("bodyerror")
            /\ chat'.state = "returned"
            /\ CASE chat.purpose = "analyze" ->
                     chat'.content = script[running].analysis
                 [] chat.purpose = "select" ->
                     chat'.content = script[running].selection
                 [] chat.purpose = "personalize" ->
                     Len(chat'.content) = script[running].wrap
                 [] OTHER -> TRUE

\* main with one service: the first email processed on its own, then again
\* beside a second email
InitShared ==
  /\ StoreInit(CHOOSE c \in Corpora :
                 Len(c) = 2 /\ c[1].id = "A" /\ c[2].id = "B")
  /\ templateRetriever = TRUE
  /\ caller = "main"
  /\ useTemplates = TRUE
  /\ retrieval = NoCall
  /\ scored = NoCall
  /\ NoRun
  /\ \E a \in MainEmails, b \in MainEmails, sa \in ScriptsA, sb \in ScriptsB :
       /\ a.from = UserSender /\ a.text \in {<<>>, Wabc}
       /\ \/ b.from = UserSender /\ b.text = Wabc \o Wdef
          \/ b.from # UserSender /\ b.text = Wabc
       /\ email = a
       /\ parked = startOf(b)
       /\ script = [A |-> sa, B |-> sb]
  /\ running = "A"
  /\ alone = None
  /\ pc = "start"
  /\ chat = IdleChat
  /\ decision = NoValue
  /\ malformedReply = FALSE
  /\ analysis = None
  /\ analysisResult = None
  /\ allMatches = <<>>
  /\ selectedTemplate = None
  /\ matchedTemplates = <<>>
  /\ result = None
  /\ thrown = None
  /\ outcome = None
  /\ calls = <<>>
  /\ timeouts = 0
  /\ protocolErrors = {}
  /\ NoFetcher

NextShared ==
  \/ SkipBlacklisted
  \/ AnalyzeEmailCall
  \/ FetchAborted /\ Scripted("abort")
  \/ FetchRejected /\ Scripted("reject")
  \/ FetchResolved /\ Scripted("resolve")
  \/ BodyRead /\ Scripted("body")
  \/ BackoffElapsed
  \/ AnalyzeEmailReturn
  \/ ProcessAnalysis
  \/ GenerateResponseCall
  \/ SelectReturn
  \/ PersonalizeReturn
  \/ FreeFormReturn
  \/ ProcessResponse
  \/ StartTogether
  \/ Yield

SpecShared == InitShared /\ [][NextShared]_vars

\* ------------------------------------------------------------------------
\* Properties
\* ------------------------------------------------------------------------
\* generateResponse has been called for the email
Called == analysisResult # None

Ended == pc \in {"responded", "done"}

IsPersonalized(r) ==
  /\ r.kind = "text"
  /\ \E i \in 1..Len(r.text) :
       r.text[i].tok = "prose" /\ r.text[i].value.kind = "personalized"

IsFreeForm(r) ==
  /\ r.kind = "text"
  /\ \E i \in 1..Len(r.text) :
       r.text[i].tok = "prose" /\ r.text[i].value.kind = "freeform"

NullSelection(d) ==
  d.kind = "object" /\ "selectedIndex" \in d.has /\ d.selectedIndex.t = "null"

\* C1: findBestMatches called with a limit >= 0 returns at most limit
\* matches, their scores are non-increasing from first to last, and none of
\* them has score 0
C1_BoundedSortedPositive ==
  (retrieval.some /\ retrieval.limit >= 0) =>
    LET ms == retrieval.matches
    IN /\ Len(ms) <= retrieval.limit
       /\ \A i, j \in 1..Len(ms) : i < j => ms[i].score >= ms[j].score
       /\ \A i \in 1..Len(ms) : ms[i].score # 0

\* a call with limit 1 that cut a list of two matches of different score
C1_Witness ==
  /\ retrieval.some /\ retrieval.limit = 1 /\ Len(retrieval.matches) = 1
  /\ LET all == findBestMatches(templates, categoryIndex, email,
                                retrieval.category, SelectionLimit)
     IN Len(all) = 2 /\ all[1].score > all[2].score

\* C2: when the selection oracle replied with selectedIndex null, no
\* personalization call is issued, generateResponse returns matchedTemplates
\* undefined and its response is the manual-review notice naming category,
\* intent, keywords, sender and subject, not a text of the oracle
C2_NullSelectionIsManualReview ==
  NullSelection(decision) =>
    /\ Ended
    /\ ~("personalize" \in Range(calls))
    /\ chat.state = "idle"
    /\ result.some
    /\ ~result.matchedTemplates.defined
    /\ result.response.kind = "manualReview"
    /\ result.response.category = analysisResult.category
    /\ "intent" \in analysisResult.has =>
         result.response.intent = analysisResult.intent
    /\ ("keywords" \in analysisResult.has /\ analysisResult.keywords # <<>>) =>
         result.response.keywords = analysisResult.keywords
    /\ result.response.sender = email.from
    /\ result.response.subject = email.subject

\* the oracle was asked to select among candidates and replied null
C2_Witness ==
  /\ NullSelection(decision) /\ pc = "responded"
  /\ Len(allMatches) > 0 /\ calls[Len(calls)] = "select"
  /\ result.response.kind = "manualReview"

\* C3: a generateResponse call that does not raise returns a result with a
\* response and a language; matchedTemplates is defined exactly when the
\* response is a personalized template, and then holds exactly the id,
\* scenario and score of the selected template
C3_MatchedTemplatesOnlyWhenPersonalized ==
  (Ended /\ Called) =>
    /\ result.some # thrown.some
    /\ result.some =>
         /\ result.response.kind \in {"manualReview", "text"}
         /\ result.language # ""
         /\ result.matchedTemplates.defined <=> IsPersonalized(result.response)
         /\ result.matchedTemplates.defined =>
              /\ selectedTemplate.some
              /\ result.matchedTemplates.list =
                   << [id |-> selectedTemplate.template.id,
                       scenario |-> selectedTemplate.template.scenario,
                       score |-> selectedTemplate.score] >>
         /\ (result.response.kind = "manualReview" \/ IsFreeForm(result.response))
              => ~result.matchedTemplates.defined

\* a personalized result
C3_Witness ==
  /\ pc = "responded" /\ result.some
  /\ IsPersonalized(result.response) /\ result.matchedTemplates.defined

\* the retriever has no candidate for the category generateResponse got
NoCandidates ==
  /\ Called /\ useTemplates /\ templateRetriever /\ hasCategory(analysisResult)
  /\ Len(findBestMatches(templates, categoryIndex, email,
                         analysisResult.category, SelectionLimit)) = 0

\* C4: with a store and a category, when the retriever returns no
\* candidates, generateResponse makes no selection call and ends in
\* free-form generation: a reply of the oracle to a prompt built from the
\* raw email and the detected language, with no template
C4_EmptyCandidatesFreeForm ==
  (Ended /\ NoCandidates) =>
    /\ ~("select" \in Range(calls))
    /\ "freeform" \in Range(calls)
    /\ result.some =>
         /\ IsFreeForm(result.response)
         /\ ~result.matchedTemplates.defined

\* C5: when the reply of the selection oracle is not parsable as JSON,
\* generateResponse does not fail there: the selected template is the first
\* candidate of findBestMatches, none scores higher, it carries the fixed
\* fallback reasoning, and the next call is its personalization
C5_ParseFailureFallsBackToFirst ==
  (decision = ParseError) =>
    /\ pc \in {"personalize", "responded", "done"}
    /\ allMatches = findBestMatches(templates, categoryIndex, email,
                                    analysisResult.category, SelectionLimit)
    /\ selectedTemplate.some
    /\ selectedTemplate.template = allMatches[1].template
    /\ selectedTemplate.score = allMatches[1].score
    /\ \A i \in 1..Len(allMatches) : selectedTemplate.score >= allMatches[i].score
    /\ selectedTemplate.reasoning = FallbackReasoning
    /\ calls[Len(calls)] = "personalize"
    /\ pc = "personalize" =>
         /\ ~thrown.some
         /\ chat.purpose = "personalize"
         /\ chat.prompt.templateContent =
              getTemplateContent(allMatches[1].template,
                                 detectedLanguage(analysisResult))

\* an unparsable reply with two candidates, the personalization under way
C5_Witness ==
  /\ decision = ParseError /\ pc = "personalize"
  /\ Len(allMatches) = 2 /\ chat.state = "fetching"

\* C6: when the reply of the analysis oracle is not JSON, analyzeEmail
\* raises nothing and returns the default analysis: isImportant true, the
\* needs-follow-up category, and a non-empty reasoning naming the parse
\* failure
C6_MalformedAnalysisYieldsDefault ==
  malformedReply =>
    /\ ~(thrown.some /\ thrown.from = "analyzeEmail")
    /\ analysis.kind = "object"
    /\ "isImportant" \in analysis.has /\ analysis.isImportant
    /\ "category" \in analysis.has /\ analysis.category = FollowUpCategory
    /\ "reasoning" \in analysis.has
    /\ analysis.reasoning = "Failed to parse AI response"

\* analyzeEmail has just returned from a reply that is not JSON
C6_Witness == malformedReply /\ pc = "analyzed"

\* C7: analyzeEmail raises an oracle error or returns an analysis with
\* every required field, its priority one of low, medium, high, urgent
C7_AnalysisNeverPartial ==
  (pc = "analyzed" /\ ~thrown.some) =>
    /\ analysis.kind = "object"
    /\ RequiredFields \subseteq analysis.has
    /\ analysis.priority \in Priorities

\* C8: an email whose analysis reply was not parsable is never skipped: it
\* is treated as important and processEmail goes on to call
\* generateResponse for it
C8_MalformedAnalysisNeverSkipped ==
  malformedReply =>
    /\ analysis.isImportant
    /\ pc # "analyzed" =>
         /\ Called
         /\ pc \in {"generateResponse", "select", "personalize", "freeform",
                     "responded", "done"}
    /\ outcome.some =>
         /\ outcome.type # "skipped"
         /\ result.some \/ thrown.some

\* the email of a malformed analysis reply ended as processed
C8_Witness ==
  /\ malformedReply /\ caller = "main" /\ pc = "done"
  /\ outcome.type = "processed" /\ result.some

\* C9: a chat call makes at most retries + 1 = 3 attempts; an attempt after
\* the first starts only from the backoff wait that followed a timeout or
\* abort of the attempt before; after any other error the call is raised
\* and no attempt of that call follows
C9_RetryOnlyAfterTimeout ==
  /\ [](chat.attempt + 1 <= 3)
  /\ [](chat.state = "backoff" => isTimeout(chat.error))
  /\ [][ (chat'.state = "fetching" /\ chat' # chat) =>
           \/ /\ chat.state = "backoff" /\ isTimeout(chat.error)
              /\ chat'.attempt = chat.attempt + 1 /\ calls' = calls
           \/ /\ chat'.attempt = 0 /\ Len(calls') = Len(calls) + 1 ]_vars
  /\ [][ (chat.state \in {"fetching", "reading"} /\ chat'.error = "Error")
           => chat'.state = "raised" ]_vars
  /\ [][ (chat.state = "raised" /\ calls' = calls)
           => chat'.state \in {"raised", "idle"} ]_vars

\* the third attempt of a call, after two timeouts
C9_Witness ==
  chat.state = "fetching" /\ chat.attempt = 2 /\ timeouts = 2

\* C10: a timeout or abort error reaches the caller of chat only from the
\* last allowed attempt, when every attempt of the call has timed out; a
\* call that returned a reply shows no error
C10_TimeoutRaisedOnlyWhenExhausted ==
  /\ (chat.state = "raised" /\ isTimeout(chat.error)) =>
       chat.attempt = retries /\ timeouts = retries + 1
  /\ (thrown.some /\ isTimeout(thrown.name)) => timeouts = retries + 1
  /\ chat.state = "returned" => chat.error = "none"

\* a call raised by the abort of its last attempt
C10_Witness ==
  chat.state = "raised" /\ chat.error = "AbortError" /\ chat.attempt = retries

\* C11: a non-2xx or malformed-payload reply to an oracle call made during
\* analyzeEmail or generateResponse (analysis, selection, personalization,
\* free-form) is not retried, and the operation that made the call raises
\* the error to its caller
C11_ProtocolErrorRaised ==
  /\ chat.purpose \in protocolErrors => chat.state = "raised"
  /\ ("analyze" \in protocolErrors /\ pc # "analyzeEmail") =>
       thrown.some /\ thrown.from = "analyzeEmail"
  /\ (protocolErrors \cap {"select", "personalize", "freeform"} # {} /\ Ended) =>
       /\ thrown.some /\ thrown.from = "generateResponse"
       /\ ~result.some

\* C12: every oracle call eventually returns a reply or raises an error: no
\* attempt stays pending forever, whether its request is in flight or its
\* response is being read
C12_EveryCallEnds ==
  (chat.state \in {"fetching", "reading", "backoff"})
    ~> (chat.state \in {"returned", "raised"})

InFlight == chat.state \in {"fetching", "reading", "backoff"}

\* C13: the oracle calls of one email are issued one after another in the
\* order analyze, select, personalize: a call is issued only when no call
\* is in flight, the selection call only after analyzeEmail has returned,
\* the personalization call only after the selection step has yielded a
\* template, and a call in flight stays the only one until it has ended
C13_OracleCallsSequential ==
  /\ [](\A i, j \in 1..Len(calls) :
          /\ (i < j /\ calls[j] = "analyze") => FALSE
          /\ (i < j /\ calls[j] = "select") => calls[i] = "analyze"
          /\ (i < j /\ calls[j] = "personalize") => calls[i] \in {"analyze", "select"}
          /\ (i # j) => calls[i] # calls[j])
  /\ [][ calls' # calls =>
           /\ ~InFlight
           /\ calls' = Append(calls, chat'.purpose)
           /\ chat'.state = "fetching"
           /\ (chat'.purpose = "select" /\ caller = "main") =>
                /\ calls = <<"analyze">>
                /\ analysis # None /\ ~thrown.some
           /\ chat'.purpose = "personalize" =>
                /\ calls[Len(calls)] = "select"
                /\ chat.purpose = "select" /\ chat.state \in {"returned", "raised"}
                /\ selectedTemplate'.some
                /\ chat'.prompt.templateContent =
                     getTemplateContent(selectedTemplate'.template,
                                        detectedLanguage(analysisResult)) ]_vars
  /\ [][ InFlight => (chat'.purpose = chat.purpose /\ chat'.state # "idle") ]_vars

\* the three calls of one email, the personalization in flight
C13_Witness ==
  /\ caller = "main" /\ calls = <<"analyze", "select", "personalize">>
  /\ chat.purpose = "personalize" /\ chat.state = "reading"

\* the emails whose processEmail call has started and not yet returned
BeingProcessed ==
  { k \in 1..Len(workers) :
      workers[k].state \in {"analyzeEmail", "generateResponse", "appendDraft"} }

\* the number (from 0) of the batch that the email at position k belongs to
BatchNumber(k) == (k - 1) \div limitOf(driver)

\* C14: at every moment at most CONCURRENCY_LIMIT emails (3 in main, 5 in
\* testConcurrency) are being processed, and no email of a later batch has
\* started while an email of an earlier batch has not produced its result
C14_BatchesBounded ==
  /\ driver = "main" => Cardinality(BeingProcessed) <= 3
  /\ driver = "testConcurrency" => Cardinality(BeingProcessed) <= 5
  /\ \A k, j \in 1..Len(workers) :
       (BatchNumber(k) < BatchNumber(j) /\ workers[j].state # "start") =>
         workers[k].state = "settled"

\* a full first batch done and an email of the second batch under way
C14_Witness ==
  /\ Len(results) = limitOf(driver)
  /\ \E j \in BeingProcessed : BatchNumber(j) = 1
  /\ \A k \in 1..limitOf(driver) : workers[k].state = "settled"

\* the run is past its batch loop
LoopDone == driverPc \in {"markAsRead", "completed"}

\* C15: an error raised by the analysis or the response generation of one
\* email does not abort the run: the run is never ended by it, every email
\* of the mailbox gets processed, and the results hold exactly one entry per
\* fetched email, in order
C15_ErrorsDoNotAbort ==
  /\ driverPc # "fatal"
  /\ \A k \in 1..Len(results) :
       /\ workers[k].state = "settled"
       /\ results[k] = workers[k].result
       /\ results[k].uid = mailbox[k].uid
       /\ results[k].type \in {"skipped", "processed", "error"}
  /\ LoopDone => Len(results) = Len(mailbox)

\* a completed run whose first email failed and whose last email, in a
\* later batch, was processed
C15_Witness ==
  /\ driverPc = "completed" /\ Len(results) > limitOf(driver)
  /\ results[1].type = "error"
  /\ results[2].type = "processed"
  /\ results[Len(results)].type = "processed"

\* C16: an email whose processing failed is never among the uids to mark
\* as read and is never flagged as read, so the next run fetches it again
C16_FailedNeverMarked ==
  \A k \in 1..Len(workers) :
    (workers[k].state = "settled" /\ workers[k].result.type = "error") =>
      /\ ~(mailbox[k].uid \in Range(uidsToMarkAsRead))
      /\ ~(mailbox[k].uid \in seen)

\* a run that flagged its emails as read, all but the failed one
C16_Witness ==
  /\ driverPc = "completed" /\ shouldMarkAsRead /\ seen # {}
  /\ \E k \in 1..Len(results) : results[k].type = "error"
  /\ Len(uidsToMarkAsRead) = Len(results) - 1

\* C17: with MARK_AS_READ enabled, when the run reports completion, every
\* email whose result is processed or skipped has been flagged as read
C17_CompletedMeansMarked ==
  (driver = "main" /\ shouldMarkAsRead /\ driverPc = "completed") =>
    \A k \in 1..Len(results) :
      results[k].type \in {"processed", "skipped"} => results[k].uid \in seen

\* C18: in the driver, generateResponse is called, and a draft saved, only
\* for an email whose analysis has isImportant true; an email analysed as
\* not important gets no oracle call after its analysis, no response and no
\* draft
C18_OnlyImportantAnswered ==
  caller = "main" =>
    /\ (Called \/ Len(calls) > 1 \/ result.some
          \/ (outcome.some /\ (outcome.messageId \/ outcome.type = "processed"))) =>
         /\ analysis # None
         /\ "isImportant" \in analysis.has
         /\ analysis.isImportant = TRUE
    /\ (analysis # None /\ pc # "analyzed"
          /\ ~("isImportant" \in analysis.has /\ analysis.isImportant)) =>
         /\ pc = "done"
         /\ calls = <<"analyze">>
         /\ chat = IdleChat
         /\ ~Called /\ ~result.some
         /\ outcome.type \in {"skipped", "error"} /\ ~outcome.messageId

\* an email analysed as not important, skipped after its only oracle call
C18_Witness ==
  /\ caller = "main" /\ pc = "done" /\ outcome.type = "skipped"
  /\ analysis # None /\ "isImportant" \in analysis.has /\ ~analysis.isImportant
  /\ calls = <<"analyze">>

\* the text a template is scored against, and its tokens
ScoredText == toLowerCase(email.subject \o <<" ">> \o email.text)

ScoredTokens == extractKeywords(ScoredText)

\* the keywords of t (by position) found as a token, and as a substring
TokenHits(t) ==
  { i \in 1..Len(t.keywords) : arrayIncludes(ScoredTokens, toLowerCase(t.keywords[i])) }

SubstringHits(t) ==
  { i \in 1..Len(t.keywords) : includes(ScoredText, toLowerCase(t.keywords[i])) }

\* the words of the scenario of t, split on seps, that are longer than 2
\* and contained in the text (by position)
ScenarioHits(t, seps) ==
  LET words == split(toLowerCase(t.scenario), seps)
  IN { j \in 1..Len(words) : Len(words[j]) > 2 /\ includes(ScoredText, words[j]) }

\* 2 per token hit, 1 per substring hit, 0.5 per scenario hit, in halves
ScoreBy(t, seps) ==
  4 * Cardinality(TokenHits(t)) + 2 * Cardinality(SubstringHits(t))
    + Cardinality(ScenarioHits(t, seps))

\* whitespace and the CJK commas
CJKSeparators == Whitespace \cup {"U+FF0C", "U+3001"}

\* C19: the score of a template is, for each of its keywords lowercased, 2
\* if it is a token of the lowercased subject and body plus 1 if that text
\* contains it, plus 0.5 for each word of the lowercased scenario, split on
\* whitespace and CJK commas, that is longer than 2 and contained in the
\* text; a keyword that is a token and a substring contributes exactly 3
C19_ScoreFormula ==
  scored.some =>
    /\ scored.score = ScoreBy(scored.template, CJKSeparators)
    /\ TokenHits(scored.template) \subseteq SubstringHits(scored.template)

\* C19 as amended: the scenario is split on whitespace, the comma and the
\* CJK commas
C19_ScoreFormulaCommaSplit ==
  scored.some =>
    /\ scored.score = ScoreBy(scored.template, CJKSeparators \cup {","})
    /\ TokenHits(scored.template) \subseteq SubstringHits(scored.template)

\* a template scored with a keyword that is a token (3), a keyword that is
\* only a substring (1) and no scenario word
C19_Witness ==
  /\ scored.some /\ scored.template.id = "B" /\ scored.score = 8
  /\ Cardinality(TokenHits(scored.template)) = 1
  /\ Cardinality(SubstringHits(scored.template)) = 2

\* no keyword of t and no word of its scenario occurs in the text
NothingOccurs(t) ==
  /\ \A i \in 1..Len(t.keywords) : ~includes(ScoredText, toLowerCase(t.keywords[i]))
  /\ \A w \in Range(split(toLowerCase(t.scenario), ScenarioSeparators)) :
       ~includes(ScoredText, w)

\* C20: the score of a template against an email is never negative, and it
\* is 0 whenever none of the keywords and none of the scenario words of the
\* template occur in the lowercased subject and body
C20_ScoreNonNegative ==
  scored.some =>
    /\ scored.score >= 0
    /\ NothingOccurs(scored.template) =>
         scored.score = 0 /\ scored.matchedKeywords = <<>>

\* a template with keywords and scenario words, none of them in the email
C20_Witness ==
  /\ scored.some /\ scored.score = 0
  /\ scored.template.id = "C" /\ NothingOccurs(scored.template)
  /\ email.text = Wabc

\* the templates of the corpus filed under a category name, in corpus order
TemplatesOf(category) ==
  SelectSeq(templates, LAMBDA t : t.category = category)

\* some template of the corpus is filed under the category name
Indexed(category) ==
  \E i \in 1..Len(templates) : templates[i].category = category

\* C21: when the requested category is exactly the category of some
\* template of the corpus, the candidates of findBestMatches are that
\* category's templates in corpus order and every match is one of them,
\* whatever other category names contain or are contained in the request
C21_ExactCategoryWins ==
  (retrieval.some /\ Indexed(retrieval.category)) =>
    /\ retrieval.candidates = TemplatesOf(retrieval.category)
    /\ \A i \in 1..Len(retrieval.matches) :
         retrieval.matches[i].template.category = retrieval.category

\* the request "r" on an index that lists "rf", which contains it, first
C21_Witness ==
  /\ retrieval.some
  /\ retrieval.category = <<"r">>
  /\ Len(categoryIndex) = 2
  /\ categoryIndex[1].key = <<"r", "f">>
  /\ categoryIndex[2].key = <<"r">>
  /\ Len(retrieval.candidates) = 1
  /\ Len(retrieval.matches) = 1

\* one name contains the other when both are written in lower case
SimilarNames(a, b) ==
  \/ includes(toLowerCase(a), toLowerCase(b))
  \/ includes(toLowerCase(b), toLowerCase(a))

\* the positions of the corpus whose template has a category similar to
\* the requested one
SimilarPositions(category) ==
  { i \in 1..Len(templates) : SimilarNames(templates[i].category, category) }

\* the first category similar to the requested one, in the order in which
\* the categories first appear in the corpus
FirstSimilar(category) ==
  templates[CHOOSE i \in SimilarPositions(category) :
              \A j \in SimilarPositions(category) : i <= j].category

\* C22: when the requested category is the category of no template but is
\* similar to some indexed name, the candidates are the templates of the
\* first similar category in insertion order, and every match is a
\* template of that category
C22_FirstSimilarCategory ==
  (/\ retrieval.some
   /\ ~Indexed(retrieval.category)
   /\ SimilarPositions(retrieval.category) # {}) =>
    /\ retrieval.candidates = TemplatesOf(FirstSimilar(retrieval.category))
    /\ \A i \in 1..Len(retrieval.matches) :
         retrieval.matches[i].template.category =
           FirstSimilar(retrieval.category)

\* the request "R" on an index that lists two similar names, "rf" before "r"
C22_Witness ==
  /\ retrieval.some
  /\ retrieval.category = <<"R">>
  /\ Len(categoryIndex) = 2
  /\ categoryIndex[1].key = <<"r", "f">>
  /\ categoryIndex[2].key = <<"r">>
  /\ retrieval.candidates = categoryIndex[1].templates
  /\ Len(retrieval.matches) = 1

\* the templates of a list of matches
MatchedTemplates(ms) == { ms[i].template : i \in 1..Len(ms) }

\* C23: when no template of the corpus is filed under the requested
\* category, findBestMatches (asked for at least one match) takes the full
\* corpus as candidates and returns a non-empty list, and it returns an
\* empty list only when the corpus is empty
C23_FullCorpusNonEmpty ==
  (retrieval.some /\ retrieval.limit >= 1 /\ ~Indexed(retrieval.category)) =>
    /\ retrieval.candidates = templates
    /\ retrieval.matches = <<>> => templates = <<>>

\* C23 as amended: when the requested category is no indexed name and is
\* similar to none, the candidates are the full corpus, so there is no
\* candidate only when the corpus is empty; the matches are the candidates
\* of positive score, all of them when the limit allows, and may be none
C23_FullCorpusCandidates ==
  (/\ retrieval.some
   /\ ~Indexed(retrieval.category)
   /\ SimilarPositions(retrieval.category) = {}) =>
    /\ retrieval.candidates = templates
    /\ MatchedTemplates(retrieval.matches) \subseteq
         { t \in Range(templates) : ScoreBy(t, ScenarioSeparators) > 0 }
    /\ retrieval.limit >= Len(templates) =>
         MatchedTemplates(retrieval.matches) =
           { t \in Range(templates) : ScoreBy(t, ScenarioSeparators) > 0 }

\* the request "x" on a corpus of two templates of which one scores
C23_Witness ==
  /\ retrieval.some
  /\ retrieval.category = <<"x">>
  /\ retrieval.limit = 2
  /\ Len(templates) = 2
  /\ Len(retrieval.candidates) = 2
  /\ Len(retrieval.matches) = 1

\* the position of a template in the corpus
PositionInCorpus(t) == CHOOSE i \in 1..Len(templates) : templates[i] = t

\* C24: two matches of equal score appear in the output of findBestMatches
\* in the order their templates have in the corpus
C24_TiesInCorpusOrder ==
  retrieval.some =>
    \A i, j \in 1..Len(retrieval.matches) :
      (i < j /\ retrieval.matches[i].score = retrieval.matches[j].score) =>
        PositionInCorpus(retrieval.matches[i].template)
          < PositionInCorpus(retrieval.matches[j].template)

\* two matches of equal score returned
C24_Witness ==
  /\ retrieval.some
  /\ Len(retrieval.matches) = 2
  /\ retrieval.matches[1].score = retrieval.matches[2].score
  /\ retrieval.matches[1].template = templates[1]
  /\ retrieval.matches[2].template = templates[2]

HasVariant(t, language) ==
  language \in DOMAIN t.languages /\ t.languages[language] # NoText

\* the language of the response: the one the analysis names, else English
ResponseLanguage ==
  IF "language" \in analysisResult.has /\ analysisResult.language # ""
  THEN analysisResult.language
  ELSE "en"

\* C26: the template text in the personalization request is the variant of
\* the selected template in the response language when the template has
\* one, and its English variant otherwise
C26_TemplateTextLanguage ==
  pc = "personalize" =>
    LET t == selectedTemplate.template
        text == chat.prompt.templateContent
    IN /\ HasVariant(t, ResponseLanguage) => text = t.languages[ResponseLanguage]
       /\ (~HasVariant(t, ResponseLanguage) /\ HasVariant(t, "en")) =>
            text = t.languages["en"]

\* personalization asked for a Chinese response from a template that has
\* an English text only
C26_Witness ==
  /\ pc = "personalize"
  /\ ResponseLanguage = "zh"
  /\ selectedTemplate.template.id = "B"
  /\ chat.prompt.templateContent = "B-en"

\* an entry of matchedTemplates names a template of the corpus
NamesTemplate(entry) ==
  \E t \in Range(templates) : t.id = entry.id /\ t.scenario = entry.scenario

\* every template a match, the selection or matchedTemplates refers to is an
\* element of the corpus
ReferencedTemplatesInCorpus ==
  /\ \A i \in 1..Len(allMatches) : allMatches[i].template \in Range(templates)
  /\ selectedTemplate.some => selectedTemplate.template \in Range(templates)
  /\ \A i \in 1..Len(matchedTemplates) : NamesTemplate(matchedTemplates[i])
  /\ (result.some /\ result.matchedTemplates.defined) =>
       \A i \in 1..Len(result.matchedTemplates.list) :
         NamesTemplate(result.matchedTemplates.list[i])

\* C27: no step of analyzeEmail or generateResponse, with the calls of
\* findBestMatches and getTemplateContent they make, changes the template
\* list, the category index or the keyword index, and every template
\* referenced by a match, by the selection or by matchedTemplates is an
\* element of the corpus
C27_StoreNeverChanges ==
  /\ [][/\ templates' = templates
        /\ categoryIndex' = categoryIndex
        /\ keywordIndex' = keywordIndex]_vars
  /\ []ReferencedTemplatesInCorpus

\* a personalized response returned from a selection among two candidates,
\* on the store as it was built
C27_Witness ==
  /\ Ended
  /\ result.some
  /\ result.matchedTemplates.defined
  /\ Len(result.matchedTemplates.list) = 1
  /\ Len(allMatches) = 2
  /\ categoryIndex = buildCategoryIndex(templates, <<>>)
  /\ keywordIndex = buildKeywordIndex(templates, <<>>)

\* the file is a JSON object with a version and with templates that are
\* an array
MatchesSchema(file) ==
  /\ file.kind = "object"
  /\ "version" \in file.has
  /\ "templates" \in file.has
  /\ file.templates.array

Constructed == pc \in {"idle", "rebuilt", "failed"}

\* C29: the constructor raises an error and leaves no retriever whenever
\* the file is unreadable, is not JSON or does not match the schema
C29_BadFileRaises ==
  (Constructed /\ ~MatchesSchema(corpusFile)) =>
    /\ pc = "failed"
    /\ thrown.some
    /\ ~templateRetriever

FirstCallDone ==
  /\ alone.some
  /\ \/ running = "A" /\ pc = "done"
     \/ running = "B" /\ parked.pc = "done"

\* what the first call of the batch gave back
FirstCallReturned ==
  IF running = "A" THEN returned(suspend) ELSE returned(parked)

\* C28: an email processed beside another email on the same service, in
\* any interleaving of the two calls at their awaits, is given what it was
\* given when it was processed alone with the same oracle replies: the same
\* analysis, the same response or error, after the same chat calls; and no
\* step of either call changes the store they share
C28_SameResultAsAlone ==
  /\ [](FirstCallDone => FirstCallReturned = alone.returned)
  /\ [][/\ templates' = templates
        /\ categoryIndex' = categoryIndex
        /\ keywordIndex' = keywordIndex
        /\ templateRetriever' = templateRetriever]_vars

\* both calls of the batch went through selection and personalization and
\* returned, the first one after a retry
C28_Witness ==
  /\ FirstCallDone
  /\ running = "B" /\ pc = "done"
  /\ result.some /\ result.matchedTemplates.defined
  /\ parked.result.some /\ parked.result.matchedTemplates.defined
  /\ result.matchedTemplates.list # parked.result.matchedTemplates.list
  /\ script["A"].fault.kind = "abort"
  /\ Len(parked.calls) = 3

\* the places of the category index that hold the template
PlacesOf(t) ==
  { p \in (1..Len(categoryIndex)) \X (1..MaxTemplates + 1) :
      /\ p[2] <= Len(categoryIndex[p[1]].templates)
      /\ categoryIndex[p[1]].templates[p[2]] = t }

\* C31: after construction every template of the corpus is in the category
\* index exactly once, in the list of its own category; every list is
\* non-empty and in corpus order, no category has two lists, and
\* getTemplatesByCategory of a category absent from the corpus is empty
C31_IndexPartitionsCorpus ==
  pc = "idle" =>
    /\ \A i \in 1..Len(templates) :
         /\ Cardinality(PlacesOf(templates[i])) = 1
         /\ \A p \in PlacesOf(templates[i]) :
              categoryIndex[p[1]].key = templates[i].category
    /\ \A k \in 1..Len(categoryIndex) :
         LET list == categoryIndex[k].templates
         IN /\ list # <<>>
            /\ \A j \in 1..Len(list) : list[j] \in Range(templates)
            /\ \A i, j \in 1..Len(list) :
                 i < j => PositionInCorpus(list[i]) < PositionInCorpus(list[j])
            /\ \A l \in 1..Len(categoryIndex) :
                 categoryIndex[l].key = categoryIndex[k].key => l = k
    /\ \A c \in RequestedCategories :
         ~Indexed(c) => getTemplatesByCategory(categoryIndex, c) = <<>>

\* a corpus of two templates of one category, B before A, was loaded, and
\* some requested category is absent from it
C31_Witness ==
  /\ pc = "idle"
  /\ Len(templates) = 2
  /\ templates[1].id = "B"
  /\ templates[2].id = "A"
  /\ getTemplatesByCategory(categoryIndex, <<"r", "f">>) = templates
  /\ ~Indexed(<<"t">>)

\* the keywords of t that added to the score: token or substring hits
ScoringKeywords(t) ==
  { t.keywords[i] : i \in TokenHits(t) \cup SubstringHits(t) }

\* C32: the matchedKeywords of a scored template has no entry twice and
\* holds exactly the keywords of the template that added to the score
C32_MatchedKeywordsIsSet ==
  scored.some =>
    /\ \A i, j \in 1..Len(scored.matchedKeywords) :
         scored.matchedKeywords[i] = scored.matchedKeywords[j] => i = j
    /\ Range(scored.matchedKeywords) = ScoringKeywords(scored.template)

\* the JSON text of v bare, inside a fence with the word json, and inside
\* plain fences
BareAndFenced(v) ==
  { <<Json(v)>>,
    <<Fence, JsonWord, Ws, Json(v), Ws, Fence>>,
    <<Fence, Ws, Json(v), Ws, Fence>> }

\* the selection step on the bare JSON text of v
SelectedOnBare(v) ==
  selectTemplate([chat EXCEPT !.content = <<Json(v)>>], allMatches)

\* C33: a reply that is a JSON text, bare or inside either kind of fence,
\* makes analyzeEmail return the value of that text, and makes the
\* selection step decide as it does on the bare text
C33_FencedParsedAsBare ==
  [][\A v \in AnalysisValues \cup SelectionValues :
       (chat.state = "returned" /\ chat.content \in BareAndFenced(v)) =>
         /\ (pc = "analyzeEmail" /\ pc' = "analyzed") => analysis' = v
         /\ (pc = "select" /\ pc' # "select") =>
              /\ decision' = v
              /\ selectedTemplate' = SelectedOnBare(v)]_vars

\* the oracle answered the selection prompt with a fenced JSON text that
\* picks the second of two candidates
C33_Witness ==
  /\ pc = "select"
  /\ chat.state = "returned"
  /\ Len(allMatches) = 2
  /\ \E v \in SelectionValues :
       /\ v.selectedIndex = Index("int", 1)
       /\ chat.content = <<Fence, Ws, Json(v), Ws, Fence>>

\* the selection reply is an object whose selectedIndex is null, negative
\* or not below the number of candidates
NoUsableIndex(d) ==
  /\ d.kind = "object"
  /\ "selectedIndex" \in d.has
  /\ \/ d.selectedIndex.t = "null"
     \/ /\ d.selectedIndex.t = "int"
        /\ (d.selectedIndex.v < 0 \/ d.selectedIndex.v >= Len(allMatches))

\* C34: the template generateResponse personalizes is one of the matches
\* findBestMatches returned for the email and the analysed category with
\* limit 10, and the text sent for personalization is that template's; a
\* selection reply with selectedIndex null, negative or not below the
\* number of candidates ends in the manual-review notice with no template
C34_PersonalizedIsCandidate ==
  /\ selectedTemplate.some =>
       /\ allMatches = findBestMatches(templates, categoryIndex, email,
                                       analysisResult.category, 10)
       /\ \E i \in 1..Len(allMatches) :
            /\ allMatches[i].template = selectedTemplate.template
            /\ allMatches[i].score = selectedTemplate.score
       /\ \E i \in 1..Len(templates) : templates[i] = selectedTemplate.template
  /\ (chat.purpose = "personalize" /\ chat.prompt.some) =>
       \E i \in 1..Len(allMatches) :
         chat.prompt.templateContent =
           getTemplateContent(allMatches[i].template, ResponseLanguage)
  /\ NoUsableIndex(decision) =>
       /\ Ended
       /\ ~selectedTemplate.some
       /\ result.some
       /\ result.response.kind = "manualReview"
       /\ ~("personalize" \in Range(calls))

\* the oracle picked index 2 of two candidates and the notice was returned
C34_Witness ==
  /\ pc = "responded"
  /\ Len(allMatches) = 2
  /\ decision.kind = "object"
  /\ decision.selectedIndex = Index("int", 2)
  /\ result.response.kind = "manualReview"

\* generateResponse is past its entry: a call was issued or it returned
Entered == Called /\ pc \in {"select", "personalize", "freeform", "responded", "done"}

\* templates are requested, a store is configured and the analysis names a
\* category
TemplatePath ==
  /\ useTemplates
  /\ templateRetriever
  /\ "category" \in analysisResult.has
  /\ analysisResult.category # <<>>

\* C35: generateResponse issues the free-form oracle call, and returns its
\* reply, exactly when useTemplates is false, there is no store or the
\* analysis has no category; otherwise it issues no free-form call and what
\* it returns is a personalized template or the manual-review notice
C35_FreeFormExactlyWithoutTemplatePath ==
  Entered =>
    /\ ("freeform" \in Range(calls)) <=> ~TemplatePath
    /\ ~TemplatePath =>
         /\ ~("select" \in Range(calls))
         /\ ~("personalize" \in Range(calls))
         /\ allMatches = <<>>
         /\ ~selectedTemplate.some
    /\ (Ended /\ result.some) =>
         /\ IsFreeForm(result.response) <=> ~TemplatePath
         /\ TemplatePath =>
              \/ IsPersonalized(result.response)
              \/ result.response.kind = "manualReview"

\* a call with a store and useTemplates true whose analysis has an empty
\* category returned a free-form reply
C35_Witness ==
  /\ caller = "direct"
  /\ pc = "responded"
  /\ useTemplates /\ templateRetriever /\ Len(templates) > 0
  /\ "category" \in analysisResult.has /\ analysisResult.category = <<>>
  /\ result.some /\ IsFreeForm(result.response)

\* C36: in a run of main with drafts enabled, every email reported as
\* processed whose uid was marked as read has its reply draft in the
\* mailbox
C36_MarkedProcessedHasDraft ==
  (driver = "main" /\ saveDrafts /\ driverPc = "completed") =>
    \A j \in 1..Len(results) :
      (results[j].type = "processed" /\ results[j].uid \in seen) =>
        results[j].messageId

\* what a keyword adds to the score, in halves: one pass of the keyword
\* loop from a score of 0
Contribution(keyword, tokens, text) ==
  scoreKeywords(<<keyword>>, tokens, text,
                [score |-> 0, matchedKeywords |-> <<>>]).score

\* C37: each keyword of a scored template contributes 0, 1 or 3 and never
\* 2: a lowercased keyword that equals a token of the text is contained in
\* the text, and every token is a contiguous part of the text
C37_KeywordNeverContributesTwo ==
  scored.some =>
    LET text == ScoredText
        tokens == extractKeywords(text)
        kws == scored.template.keywords
    IN /\ \A i \in 1..Len(kws) :
            /\ Contribution(kws[i], tokens, text) \in {0, 2, 6}
            /\ arrayIncludes(tokens, toLowerCase(kws[i]))
                 => includes(text, toLowerCase(kws[i]))
       /\ \A j \in 1..Len(tokens) : includes(text, tokens[j])

\* template B scored on a text in which its keyword Abc is a token (3) and
\* its keyword d does not occur (0)
C37_Witness ==
  /\ scored.some /\ scored.template.id = "B"
  /\ Contribution(scored.template.keywords[1], ScoredTokens, ScoredText) = 6
  /\ Contribution(scored.template.keywords[2], ScoredTokens, ScoredText) = 0
  /\ scored.matchedKeywords = << <<"A", "b", "c">> >>

\* the positions of the mailbox whose sender, lowercased, is blacklisted
Blacklisted ==
  { k \in 1..Len(mailbox) : lowerAddress(mailbox[k].from) \in senderBlacklist }

\* C38: in a run of main, an email of a blacklisted sender never waits for
\* the oracle or for appendDraft; its result is skipped with no draft, and
\* once the statistics are collected its uid is among the uids to mark as
\* read
C38_BlacklistedSkippedAndMarked ==
  driver = "main" =>
    \A k \in Blacklisted :
      /\ workers[k].state \in {"start", "settled"}
      /\ workers[k].state = "settled" =>
           /\ workers[k].result.type = "skipped"
           /\ workers[k].result.uid = mailbox[k].uid
           /\ ~workers[k].result.messageId
      /\ driverPc \in {"markAsRead", "completed"} =>
           /\ results[k].type = "skipped"
           /\ mailbox[k].uid \in Range(uidsToMarkAsRead)
      /\ mailbox[k].uid \in seen => driverPc = "completed"

\* a completed run of main with drafts enabled whose second email is from
\* a blacklisted sender and whose first email got a draft
C38_Witness ==
  /\ driver = "main" /\ driverPc = "completed" /\ saveDrafts
  /\ 2 \in Blacklisted
  /\ results[2].type = "skipped"
  /\ results[1].type = "processed" /\ results[1].messageId
  /\ mailbox[2].uid \in Range(uidsToMarkAsRead)
  /\ mailbox[2].uid \in seen

\* the Imap objects on which a connect() is in progress
Connecting ==
  { i \in 1..Len(connections) : connections[i].pending > 0 }

\* C39: while workers of a batch call appendDraft on a lost connection, at
\* most one connection attempt is in progress, on at most one new Imap
\* object, started by one connect() call; and every imap.append is called
\* on an object that is ready
C39_OneReconnectReadyAppend ==
  /\ Cardinality(Connecting) <= 1
  /\ \A i \in 1..Len(connections) : connections[i].pending <= 1
  /\ \A a \in appends : a.ready

====
